---------------------------- MODULE Spec2Model ----------------------------
(***************************************************************************)
(* Model of the LightBox3 render controller (ledctl/core/renderer.py), of  *)
(* the output devices (ledctl/core/drivers) and of the boot, parameter and *)
(* shutdown paths of the API layer (ledctl/app.py).                        *)
(*                                                                         *)
(* Conventions                                                             *)
(*   - A path is a sequence of components; an absolute path starts with    *)
(*     the component "/".                                                   *)
(*   - Real numbers with one decimal are stored times ten (gamma 2.2 is    *)
(*     22, balance 1.0 is 10, a payload's fps_cap 59.9 is 599).            *)
(*   - Every `with self._lock:` block is one atomic step; everything a     *)
(*     thread does between two accesses of shared state is one step.       *)
(*   - time.time() is read from the clock `now`; two successive reads by   *)
(*     the program never return the same value (the clock's resolution is  *)
(*     finer than the time between two control calls).                     *)
(***************************************************************************)
EXTENDS Integers, Sequences, FiniteSets, TLC

VARIABLES
    run_event,       \* Renderer._run_event (threading.Event)
    current_path,    \* Renderer._current_path
    builtin_name,    \* Renderer._builtin_name
    builtin_params,  \* Renderer._builtin_params
    stats,           \* Renderer._stats
    latest_image,    \* Renderer._latest_image
    render,          \* Renderer._config["render"], the live RenderConfig
    mapper,          \* Renderer._mapper
    now,             \* the wall clock read by time.time()
    pc,              \* position of every external caller
    arg,             \* the argument of the call a caller is in
    wpc,             \* position of the worker thread in Renderer._run
    wsrc,            \* worker locals: path, or name and params
    widx,            \* worker local: frames pulled from the open sequence
    wframe,          \* worker local: the frame being drawn
    wsnap,           \* the RenderConfig as Mapper.apply_transforms found it
                     \* for the frame being drawn, kept until _draw_frame
                     \* has read gamma and rgb_balance
    cfg_device,      \* config["device"], the device-name tag
    device,          \* app.config["output_device"] / Renderer._device
    inflight,        \* the blocking calls in progress, each with its thread
    lock,            \* the thread that holds Renderer._lock
    bpc,             \* position of the main thread: create_app, signal handler
    decodable,       \* the files the frame loaders can decode
    drawn,           \* the calls of Device.draw that have returned since the
                     \* last stop() returned, while no later call of start,
                     \* start_builtin or stop was made
    pstage,          \* the stage a frame handled on its own has reached
    pcfg,            \* the configuration and the input of that handling
    pimg,            \* the image that is going through the stages
    pout             \* the result: a pixel sequence, a canvas, frames

ctl    == <<run_event, current_path, builtin_name, builtin_params>>
shared == <<run_event, current_path, builtin_name, builtin_params, stats,
            latest_image, render, mapper>>
wvars  == <<wpc, wsrc, widx, wframe, wsnap>>
env    == <<cfg_device, device, inflight, lock, bpc, decodable>>
pix    == <<pstage, pcfg, pimg, pout>>
vars   == <<run_event, current_path, builtin_name, builtin_params, stats,
            latest_image, render, mapper, now, pc, arg, wpc, wsrc, widx,
            wframe, wsnap, cfg_device, device, inflight, lock, bpc,
            decodable, drawn, pstage, pcfg, pimg, pout>>

---------------------------------------------------------------------------
(* Bounds of the model *)

\* number of time.time() reads (start / start_builtin calls) in a behaviour
MaxClock == 3
\* the frame counter stops the worker when it reaches this value
MaxFrames == 3

Callers == {1, 2}

\* Python's None, for a path, a pattern name and a frame duration
NoPath == <<>>
NoName == "<None>"
NoDur == -1
\* the empty dict {}
EmptyDict == [k \in {} |-> 0]
NoArg ==
    [op |-> "none", path |-> NoPath, name |-> NoName, params |-> EmptyDict,
     payload |-> EmptyDict]
\* a value float() and int() cannot convert, such as "abc" or None
NonNumeric == -99999

\* thread identities: the callers are 1 and 2, the Renderer thread is 0
WorkerId == 0
\* the value of `lock` while no thread holds Renderer._lock
NoThread == -1

---------------------------------------------------------------------------
(* The file system seen by os.path and by the frame loaders *)

Cwd == <<"/", "cwd">>

ImgPath == <<"/", "u", "a.png">>
GifPath == <<"/", "cwd", "b.gif">>
BadPath == <<"/", "u", "bad.png">>
DirPath == <<"/", "u">>
MissingPath == <<"/", "u", "none.png">>
\* an animated GIF whose first frame decodes and whose second one is damaged
TornGif == <<"/", "u", "torn.gif">>

\* the paths callers pass to start(); <<"b.gif">> is relative to Cwd
InputPaths == {ImgPath, <<"b.gif">>, BadPath, DirPath, MissingPath}

\* os.path.abspath: a relative path is joined to the working directory
Abspath(p) == IF p # <<>> /\ p[1] = "/" THEN p ELSE Cwd \o p

\* the files that decode when the program starts; BadPath is a corrupt file
InitDecodable == {ImgPath, GifPath}

Exists(p) == p \in {ImgPath, GifPath, BadPath, TornGif, DirPath, Cwd, <<"/">>}
IsFile(p) == p \in {ImgPath, GifPath, BadPath, TornGif}

\* os.path.splitext(path)[1].lower()
Ext(p) ==
    CASE p \in {GifPath, TornGif} -> ".gif"
      [] p \in {ImgPath, BadPath, MissingPath} -> ".png"
      [] OTHER -> ""

---------------------------------------------------------------------------
(* Frames and frame sources *)

Frame(kind, path, name, idx, dur, content) ==
    [kind |-> kind, path |-> path, name |-> name, idx |-> idx, dur |-> dur,
     content |-> content]
NoFrame == Frame("none", NoPath, NoName, 0, NoDur, "none")

\* number of frames an asset yields before its sequence ends or fails: two
\* for the GIF, one for a still image, none for a file that does not decode;
\* load_gif decodes frame by frame as the frames are asked for, so the
\* damaged GIF yields its first frame before the second one raises
FrameCount(p) ==
    IF p = TornGif THEN 1
    ELSE IF p \notin decodable THEN 0 ELSE IF Ext(p) = ".gif" THEN 2 ELSE 1
\* whether the loader raises once those frames are consumed
DecodeFails(p) == p \notin decodable

\* frames.load_image / load_gif: frame number i (from 1) of asset p
AssetFrame(p, i) ==
    Frame("asset", p, NoName, i, IF Ext(p) = ".gif" THEN 50 ELSE NoDur, "asset")

\* anims.list_builtin
BuiltinNames == {"color_cycle", "moving_stripes", "scrolling_text"}

\* Renderer._open_builtin: the frames of the generator it returns
BuiltinFrame(name, params) ==
    CASE name = "color_cycle" -> Frame("builtin", NoPath, name, 0, 16, name)
      [] name = "moving_stripes" -> Frame("builtin", NoPath, name, 0, 30, name)
      [] name = "scrolling_text" -> Frame("builtin", NoPath, name, 0, 30, name)
      [] OTHER -> Frame("builtin", NoPath, name, 0, 100, "black")

---------------------------------------------------------------------------
(* Output devices, ledctl/core/drivers, and the factory of app.py *)

LowerLetters ==
    <<"a", "b", "c", "d", "e", "f", "g", "h", "i", "j", "k", "l", "m",
      "n", "o", "p", "q", "r", "s", "t", "u", "v", "w", "x", "y", "z">>
UpperLetters ==
    <<"A", "B", "C", "D", "E", "F", "G", "H", "I", "J", "K", "L", "M",
      "N", "O", "P", "Q", "R", "S", "T", "U", "V", "W", "X", "Y", "Z">>

\* str.upper on one character
UpperChar(ch) ==
    IF \E i \in DOMAIN LowerLetters : LowerLetters[i] = ch
    THEN UpperLetters[CHOOSE i \in DOMAIN LowerLetters : LowerLetters[i] = ch]
    ELSE ch

\* str.upper: a tag is the sequence of its characters
Upper(tag) == [i \in DOMAIN tag |-> UpperChar(tag[i])]

TagPreview == <<"P", "R", "E", "V", "I", "E", "W">>
TagHub75 == <<"H", "U", "B", "7", "5">>
TagWs2811 == <<"W", "S", "2", "8", "1", "1">>
TagWs2811Pi == <<"W", "S", "2", "8", "1", "1", "_", "P", "I">>
TagWled == <<"W", "L", "E", "D">>

\* the values of config["device"] the program is booted with
InputTags ==
    {TagPreview, <<"h", "u", "b", "7", "5">>, <<"W", "s", "2", "8", "1", "1">>,
     <<"w", "s", "2", "8", "1", "1", "_", "p", "i">>, TagWled,
     <<"D", "M", "X">>}

\* a driver without a brightness: a stub, or a Hub75Driver without matrix
NoBrightness == -1

\* a driver object: kind is its class, name the device_name of the preview
\* driver, matrix whether Hub75Driver._matrix and _canvas are set, latest the
\* preview driver's _latest_image, panel the frame the LED matrix shows,
\* brightness the stored brightness in percent
NoDevice ==
    [kind |-> "none", name |-> "", matrix |-> FALSE, latest |-> NoFrame,
     panel |-> NoFrame, brightness |-> NoBrightness]

NullPreviewDriver(device_name) ==
    [NoDevice EXCEPT !.kind = "PREVIEW", !.name = device_name,
                     !.brightness = 100]
Hub75Driver == [NoDevice EXCEPT !.kind = "HUB75"]
Ws2811PiDriver == [NoDevice EXCEPT !.kind = "WS2811"]
WledUdpDriver == [NoDevice EXCEPT !.kind = "WLED"]

\* faulty variant of CreateOutputDevice: the tag is compared as it is written
CreateOutputDevice_CaseSensitive(tag) ==
    CASE tag = TagPreview -> NullPreviewDriver("PREVIEW")
      [] tag = TagHub75 -> Hub75Driver
      [] tag \in {TagWs2811, TagWs2811Pi} -> Ws2811PiDriver
      [] tag = TagWled -> WledUdpDriver
      [] OTHER -> NullPreviewDriver("PREVIEW_UNKNOWN")

\* app._create_output_device
CreateOutputDevice(tag) ==
    LET device_name == Upper(tag) IN
    CASE device_name = TagPreview -> NullPreviewDriver("PREVIEW")
      [] device_name = TagHub75 -> Hub75Driver
      [] device_name \in {TagWs2811, TagWs2811Pi} -> Ws2811PiDriver
      [] device_name = TagWled -> WledUdpDriver
      [] OTHER -> NullPreviewDriver("PREVIEW_UNKNOWN")

\* whether open() of the driver can raise: Hub75Driver.open imports rgbmatrix
\* and initialises the hardware, the other drivers' open() only returns
OpenCanFail(d) == d.kind = "HUB75"

\* open() that succeeds: Hub75Driver creates the matrix and its canvas with
\* the configured brightness, 85 by default
DeviceOpen(d) ==
    IF d.kind = "HUB75" THEN [d EXCEPT !.matrix = TRUE, !.brightness = 85] ELSE d

\* close(): the preview driver drops its image, Hub75Driver its matrix
DeviceClose(d) ==
    CASE d.kind = "PREVIEW" -> [d EXCEPT !.latest = NoFrame]
      [] d.kind = "HUB75" ->
             [d EXCEPT !.matrix = FALSE, !.brightness = NoBrightness]
      [] OTHER -> d

\* draw_rgb_frame that returns normally
DrawRgbFrame(d, f) ==
    CASE d.kind = "PREVIEW" -> [d EXCEPT !.latest = f]
      [] d.kind = "HUB75" -> IF d.matrix THEN [d EXCEPT !.panel = f] ELSE d
      [] OTHER -> d

\* Mapper.__init__, lines 23-37: for these devices it looks for the map file
\* on disk and reads it
MapperReadsFile(tag) == Upper(tag) \in {TagWs2811, TagWs2811Pi}

\* the content of config/ws2811.map.json, the map file of the configuration
MapFile == <<"map">>

---------------------------------------------------------------------------
(* Inputs of the control operations *)

\* names passed to start_builtin: a builtin, an unknown name, the empty name
InputNames == {"color_cycle", "bogus", ""}
InputParams == {EmptyDict}

\* dicts passed to Renderer.set_render_params by a direct caller
InputRenderParams == {[gamma |-> 10], [gamma |-> 100]}

\* payloads of the set_params socket event
InputPayloads ==
    {[gamma |-> 10], [fps_cap |-> 10000, rotate |-> 45], [rotate |-> NonNumeric]}

---------------------------------------------------------------------------
(* Renderer.__init__ *)

InitStats == [frames |-> 0, last_draw_ms |-> 0, started_at |-> 0]

\* app._default_config()["render"], numbers with a decimal times ten
DefaultRender ==
    [scale |-> "LANCZOS", fps_cap |-> 60, gamma |-> 22,
     rgb_balance |-> <<10, 10, 10>>, mirror_x |-> FALSE, mirror_y |-> FALSE,
     rotate |-> 0]

\* Mapper.__init__: the coordinate map it loads (none for the PREVIEW device)
NewMapper(cfg) == [ws_map |-> <<>>]

\* the value of wsnap while no frame is between its transform and its
\* colour correction
NoSnap ==
    [scale |-> "", fps_cap |-> -1, gamma |-> -1, rgb_balance |-> <<>>,
     mirror_x |-> FALSE, mirror_y |-> FALSE, rotate |-> -1]

\* the value of `drawn` while no stop() has returned or a later call was made
NoCount == -1

\* no frame is handled on its own
PixOff == pstage = "off" /\ pcfg = <<>> /\ pimg = <<>> /\ pout = <<>>

\* the state when create_app has returned, with the default configuration
Init ==
    /\ run_event = FALSE
    /\ current_path = NoPath
    /\ builtin_name = NoName
    /\ builtin_params = EmptyDict
    /\ stats = InitStats
    /\ latest_image = NoFrame
    /\ render = DefaultRender
    /\ mapper = NewMapper(DefaultRender)
    /\ now = 1
    /\ pc = [c \in Callers |-> "idle"]
    /\ arg = [c \in Callers |-> NoArg]
    /\ wpc = "top"
    /\ wsrc = NoArg
    /\ widx = 0
    /\ wframe = NoFrame
    /\ wsnap = NoSnap
    /\ cfg_device = TagPreview
    /\ device = DeviceOpen(CreateOutputDevice(TagPreview))
    /\ inflight = {}
    /\ lock = NoThread
    /\ bpc = "serving"
    /\ decodable = InitDecodable
    /\ drawn = NoCount
    /\ PixOff

---------------------------------------------------------------------------
(* Control operations of the Renderer, called by external threads *)

Goto(c, label) == pc' = [pc EXCEPT ![c] = label]
Return(c) == pc' = [pc EXCEPT ![c] = "idle"] /\ arg' = [arg EXCEPT ![c] = NoArg]

\* faulty variant of PathOk: the isfile test is forgotten
PathOk_NoIsFile(norm) == Exists(norm)

\* the test of Renderer.start on the normalised path
PathOk(norm) == Exists(norm) /\ IsFile(norm)

\* start, lines 49-51: normalise and validate; FileNotFoundError otherwise
StartCheck(c, p) ==
    /\ pc[c] = "idle"
    /\ LET norm == Abspath(p) IN
       IF PathOk(norm)
       THEN /\ Goto(c, "start_lock")
            /\ arg' = [arg EXCEPT ![c] = [NoArg EXCEPT !.op = "start", !.path = norm]]
       ELSE /\ Goto(c, "start_raise")
            /\ arg' = [arg EXCEPT ![c] = [NoArg EXCEPT !.op = "start", !.path = p]]
    /\ drawn' = NoCount
    /\ UNCHANGED <<shared, now, wvars, env, pix>>

\* the FileNotFoundError leaves start and reaches the caller
StartRaise(c) ==
    /\ pc[c] = "start_raise"
    /\ Return(c)
    /\ UNCHANGED <<shared, now, wvars, env, pix, drawn>>

\* faulty variant of FreshStats: the counters are reset, the timestamp is kept
FreshStats_KeepTime(t) == [stats EXCEPT !.frames = 0, !.last_draw_ms = 0]

\* the statistics start and start_builtin install
FreshStats(t) == [frames |-> 0, last_draw_ms |-> 0, started_at |-> t]

\* start, lines 52-58
StartLock(c) ==
    /\ pc[c] = "start_lock"
    /\ lock = NoThread
    /\ now <= MaxClock
    /\ current_path' = arg[c].path
    /\ stats' = FreshStats(now)
    /\ now' = now + 1
    /\ Goto(c, "start_set")
    /\ UNCHANGED <<run_event, builtin_name, builtin_params, latest_image,
                   render, mapper, arg, wvars, env, pix, drawn>>

\* faulty variant of StartSet: start draws the first frame itself
StartSet_Draws(c) ==
    /\ pc[c] = "start_set"
    /\ run_event' = TRUE
    /\ inflight' = inflight \cup {[t |-> c, call |-> "draw"]}
    /\ Return(c)
    /\ UNCHANGED <<current_path, builtin_name, builtin_params, stats,
                   latest_image, render, mapper, now, wvars, cfg_device,
                   device, lock, bpc, decodable, pix, drawn>>

\* start, line 59
StartSet(c) ==
    /\ pc[c] = "start_set"
    /\ run_event' = TRUE
    /\ Return(c)
    /\ UNCHANGED <<current_path, builtin_name, builtin_params, stats,
                   latest_image, render, mapper, now, wvars, env, pix, drawn>>

\* faulty variant of StopClear: the running flag is left as it is
StopClear_KeepsRunning(c) ==
    /\ pc[c] = "idle"
    /\ Goto(c, "stop_lock")
    /\ arg' = [arg EXCEPT ![c] = [NoArg EXCEPT !.op = "stop"]]
    /\ drawn' = NoCount
    /\ UNCHANGED <<run_event, current_path, builtin_name, builtin_params, stats,
                   latest_image, render, mapper, now, wvars, env, pix>>

\* stop, line 62
StopClear(c) ==
    /\ pc[c] = "idle"
    /\ run_event' = FALSE
    /\ Goto(c, "stop_lock")
    /\ arg' = [arg EXCEPT ![c] = [NoArg EXCEPT !.op = "stop"]]
    /\ drawn' = NoCount
    /\ UNCHANGED <<current_path, builtin_name, builtin_params, stats,
                   latest_image, render, mapper, now, wvars, env, pix>>

\* faulty variant of StopLock: stop also resets the statistics
StopLock_ResetStats(c) ==
    /\ pc[c] = "stop_lock"
    /\ lock = NoThread
    /\ current_path' = NoPath
    /\ builtin_name' = NoName
    /\ builtin_params' = EmptyDict
    /\ stats' = InitStats
    /\ Return(c)
    /\ drawn' = 0
    /\ UNCHANGED <<run_event, latest_image, render, mapper, now, wvars, env,
                   pix>>

\* faulty variant of StopLock: stop also drops the cached image
StopLock_ClearsImage(c) ==
    /\ pc[c] = "stop_lock"
    /\ lock = NoThread
    /\ current_path' = NoPath
    /\ builtin_name' = NoName
    /\ builtin_params' = EmptyDict
    /\ latest_image' = NoFrame
    /\ Return(c)
    /\ drawn' = 0
    /\ UNCHANGED <<run_event, stats, render, mapper, now, wvars, env, pix>>

\* stop, lines 63-66
StopLock(c) ==
    /\ pc[c] = "stop_lock"
    /\ lock = NoThread
    /\ current_path' = NoPath
    /\ builtin_name' = NoName
    /\ builtin_params' = EmptyDict
    /\ Return(c)
    /\ drawn' = 0
    /\ UNCHANGED <<run_event, stats, latest_image, render, mapper, now, wvars,
                   env, pix>>

\* start_builtin, lines 227-235
StartBuiltinLock(c, name, params) ==
    /\ pc[c] = "idle"
    /\ lock = NoThread
    /\ now <= MaxClock
    /\ builtin_name' = name
    /\ builtin_params' = params
    /\ current_path' = NoPath
    /\ stats' = FreshStats(now)
    /\ now' = now + 1
    /\ Goto(c, "sb_set")
    /\ arg' = [arg EXCEPT ![c] =
                 [NoArg EXCEPT !.op = "start_builtin", !.name = name, !.params = params]]
    /\ drawn' = NoCount
    /\ UNCHANGED <<run_event, latest_image, render, mapper, wvars, env, pix>>

\* start_builtin, line 236
StartBuiltinSet(c) ==
    /\ pc[c] = "sb_set"
    /\ run_event' = TRUE
    /\ Return(c)
    /\ UNCHANGED <<current_path, builtin_name, builtin_params, stats,
                   latest_image, render, mapper, now, wvars, env, pix, drawn>>

\* what the worker plays in the current state, as _run decides it in lines
\* 110-122: the path if there is one, else the pattern if its name is truthy
RendererState ==
    IF current_path # NoPath
    THEN [NoArg EXCEPT !.op = "asset", !.path = current_path]
    ELSE IF builtin_name # NoName /\ builtin_name # ""
         THEN [NoArg EXCEPT !.op = "builtin", !.name = builtin_name,
                            !.params = builtin_params]
         ELSE NoArg

\* get_status, lines 88-100: the snapshot returned in the current state
GetStatus ==
    [running |-> run_event, path |-> current_path, builtin |-> builtin_name,
     frames |-> stats.frames, last_draw_ms |-> stats.last_draw_ms,
     started_at |-> stats.started_at]

\* get_latest_image, lines 82-86
GetLatestImage == latest_image

---------------------------------------------------------------------------
(* Live parameter updates *)

Min(a, b) == IF a < b THEN a ELSE b
Max(a, b) == IF a > b THEN a ELSE b

\* dict.update
Update(d, u) ==
    [k \in DOMAIN d \cup DOMAIN u |-> IF k \in DOMAIN u THEN u[k] ELSE d[k]]

\* payload.get(name, default)
Get(payload, name, default) ==
    IF name \in DOMAIN payload THEN payload[name] ELSE default

\* _validate_render_params._f, lines 368-373 (all numbers times ten)
ClampF(payload, name, lo, hi, default) ==
    LET got == Get(payload, name, default)
        val == IF got = NonNumeric THEN default ELSE got
    IN Max(lo, Min(hi, val))

\* lines 382-384: a balance that is no list of three is replaced
BalanceList(payload) ==
    LET got == Get(payload, "rgb_balance", <<10, 10, 10>>)
    IN IF Len(got) # 3 THEN <<10, 10, 10>> ELSE got

\* lines 378 and 385: int() and float() raise on a value they cannot convert
ValidateRaises(payload) ==
    \/ Get(payload, "rotate", 0) = NonNumeric
    \/ \E i \in 1..3 : BalanceList(payload)[i] = NonNumeric

\* _validate_render_params, lines 367-394, when it does not raise
ValidateRenderParams(payload) ==
    LET rot == Get(payload, "rotate", 0)
        bal == BalanceList(payload)
    IN [fps_cap |-> ClampF(payload, "fps_cap", 10, 2400, 600) \div 10,
        gamma |-> ClampF(payload, "gamma", 10, 30, 22),
        mirror_x |-> Get(payload, "mirror_x", FALSE),
        mirror_y |-> Get(payload, "mirror_y", FALSE),
        rotate |-> IF rot \in {0, 90, 180, 270} THEN rot ELSE 0,
        rgb_balance |-> [i \in 1..3 |-> Max(5, Min(15, bal[i]))]]

\* Renderer.set_render_params is entered with its argument
SetRenderParamsCall(c, rp) ==
    /\ pc[c] = "idle"
    /\ Goto(c, "srp_lock")
    /\ arg' = [arg EXCEPT ![c] = [NoArg EXCEPT !.op = "set_render_params",
                                  !.params = rp, !.payload = rp]]
    /\ UNCHANGED <<shared, now, wvars, env, pix, drawn>>

\* faulty variant of SetRenderParamsLock: the update restarts the frame counter
SetRenderParamsLock_ResetStats(c) ==
    /\ pc[c] = "srp_lock"
    /\ lock = NoThread
    /\ render' = Update(render, arg[c].params)
    /\ stats' = [stats EXCEPT !.frames = 0]
    /\ IF MapperReadsFile(cfg_device)
       THEN /\ lock' = c
            /\ inflight' = inflight \cup {[t |-> c, call |-> "file"]}
            /\ Goto(c, "srp_map")
            /\ UNCHANGED <<mapper, arg>>
       ELSE /\ mapper' = NewMapper(render')
            /\ Return(c)
            /\ UNCHANGED <<lock, inflight>>
    /\ UNCHANGED <<ctl, latest_image, now, wvars, cfg_device, device, bpc,
                   decodable, pix, drawn>>

\* Renderer.set_render_params, lines 72-80: the lock is taken, the dict is
\* updated and Mapper(config) is constructed; for a WS2811 device the
\* constructor goes to the file system, with the lock still held
SetRenderParamsLock(c) ==
    /\ pc[c] = "srp_lock"
    /\ lock = NoThread
    /\ render' = Update(render, arg[c].params)
    /\ IF MapperReadsFile(cfg_device)
       THEN /\ lock' = c
            /\ inflight' = inflight \cup {[t |-> c, call |-> "file"]}
            /\ Goto(c, "srp_map")
            /\ UNCHANGED <<mapper, arg>>
       ELSE /\ mapper' = NewMapper(render')
            /\ Return(c)
            /\ UNCHANGED <<lock, inflight>>
    /\ UNCHANGED <<ctl, stats, latest_image, now, wvars, cfg_device, device,
                   bpc, decodable, pix, drawn>>

\* Mapper.__init__, lines 30-37, then set_render_params, line 80: the map
\* file has been read, the mapper is stored and the lock is released
SetRenderParamsMap(c) ==
    /\ pc[c] = "srp_map"
    /\ mapper' = [ws_map |-> MapFile]
    /\ lock' = NoThread
    /\ inflight' = inflight \ {[t |-> c, call |-> "file"]}
    /\ Return(c)
    /\ UNCHANGED <<ctl, stats, latest_image, render, now, wvars, cfg_device,
                   device, bpc, decodable, pix, drawn>>

\* ws_set_params, line 267: validate the payload
WsValidate(c, payload) ==
    /\ pc[c] = "idle"
    /\ IF ValidateRaises(payload)
       THEN /\ Goto(c, "ws_raise")
            /\ arg' = [arg EXCEPT ![c] = [NoArg EXCEPT !.op = "ws_set_params",
                                          !.payload = payload]]
       ELSE /\ Goto(c, "ws_update")
            /\ arg' = [arg EXCEPT ![c] = [NoArg EXCEPT !.op = "ws_set_params",
                                          !.params = ValidateRenderParams(payload),
                                          !.payload = payload]]
    /\ UNCHANGED <<shared, now, wvars, env, pix, drawn>>

\* ws_set_params, lines 278-279: the error is logged, the update is dropped
WsRaise(c) ==
    /\ pc[c] = "ws_raise"
    /\ Return(c)
    /\ UNCHANGED <<shared, now, wvars, env, pix, drawn>>

\* ws_set_params, lines 269-271: the dict updated here is the one the
\* Renderer holds, and this thread does not hold the Renderer's lock
WsUpdate(c) ==
    /\ pc[c] = "ws_update"
    /\ render' = Update(render, arg[c].params)
    /\ Goto(c, "srp_lock")
    /\ UNCHANGED <<ctl, stats, latest_image, mapper, now, arg, wvars, env, pix,
                   drawn>>

---------------------------------------------------------------------------
(* The worker thread, Renderer._run; stop_event is never set by the class *)

WReset == wsrc' = NoArg /\ widx' = 0 /\ wframe' = NoFrame

\* lines 104-107: with run_event clear the worker sleeps 20 ms and polls again
WTop ==
    /\ wpc = "top"
    /\ run_event
    /\ wpc' = "rd_path"
    /\ UNCHANGED <<shared, now, pc, arg, env, pix, drawn, wsnap, wsrc, widx,
                   wframe>>

\* lines 110-113
WReadPath ==
    /\ wpc = "rd_path"
    /\ lock = NoThread
    /\ IF current_path # NoPath
       THEN /\ wpc' = "a_next"
            /\ wsrc' = [NoArg EXCEPT !.op = "asset", !.path = current_path]
       ELSE /\ wpc' = "rd_name"
            /\ wsrc' = NoArg
    /\ UNCHANGED <<shared, now, pc, arg, env, pix, drawn, wsnap, widx, wframe>>

\* `if not name`: Python's truth value of an Optional[str]
NameIsFalsy(name) == name = NoName \/ name = ""

\* faulty variant of WReadName: without a pattern name the worker draws the
\* black fallback frames
WReadName_DrawsFallback ==
    /\ wpc = "rd_name"
    /\ lock = NoThread
    /\ wpc' = "draw"
    /\ wsrc' = [NoArg EXCEPT !.op = "builtin", !.name = builtin_name,
                             !.params = builtin_params]
    /\ wframe' = BuiltinFrame(builtin_name, builtin_params)
    /\ widx' = 1
    /\ UNCHANGED <<shared, now, pc, arg, env, pix, drawn, wsnap>>

\* lines 117-125: read the pattern; none: sleep 50 ms; else open the generator
\* and take its first frame
WReadName ==
    /\ wpc = "rd_name"
    /\ lock = NoThread
    /\ IF NameIsFalsy(builtin_name)
       THEN wpc' = "top" /\ WReset
       ELSE /\ wpc' = "b_chk1"
            /\ wsrc' = [NoArg EXCEPT !.op = "builtin", !.name = builtin_name,
                                     !.params = builtin_params]
            /\ wframe' = BuiltinFrame(builtin_name, builtin_params)
            /\ widx' = 1
    /\ UNCHANGED <<shared, now, pc, arg, env, pix, drawn, wsnap>>

\* lines 126-127: the pattern loop's check before the draw
WBuiltinCheck1 ==
    /\ wpc = "b_chk1"
    /\ IF run_event THEN wpc' = "draw" /\ UNCHANGED <<wsrc, widx, wframe>>
                    ELSE wpc' = "top" /\ WReset
    /\ UNCHANGED <<shared, now, pc, arg, env, pix, drawn, wsnap>>

\* the fields of the RenderConfig Mapper.apply_transforms reads, lines 43-46
XformOf(r) ==
    [rotate |-> r.rotate % 360, mirror_x |-> r.mirror_x,
     mirror_y |-> r.mirror_y, scale |-> r.scale]

\* the fields of the RenderConfig _draw_frame reads, lines 154-162
ColorOf(r) == [gamma |-> r.gamma, rgb_balance |-> r.rgb_balance]

\* _draw_frame, line 153: Mapper.apply_transforms reads rotate, mirror and
\* scale from the live dict, without the lock, and transforms the frame with
\* XformOf of what it finds; int() of a rotate that is no number raises
\* (mapper.py, line 44) and _run catches the exception in lines 134 and 147
WTransform ==
    /\ wpc = "draw"
    /\ IF render.rotate = NonNumeric
       THEN /\ wpc' = "backoff"
            /\ WReset
            /\ wsnap' = NoSnap
       ELSE /\ wsnap' = render
            /\ wpc' = "color"
            /\ UNCHANGED <<wsrc, widx, wframe>>
    /\ UNCHANGED <<shared, now, pc, arg, env, pix, drawn>>

\* _draw_frame, lines 154-171: gamma and rgb_balance are read from the live
\* dict, without the lock; float() of a value that is no number raises; else
\* the frame is corrected with ColorOf of what is found and Device.draw is
\* entered, where Hub75Driver returns at once without its matrix (hub75.py,
\* lines 136-138)
WColor ==
    /\ wpc = "color"
    /\ IF render.gamma = NonNumeric
       THEN /\ wpc' = "backoff"
            /\ WReset
            /\ wsnap' = NoSnap
            /\ UNCHANGED inflight
       ELSE /\ wsnap' = NoSnap
            /\ wpc' = IF device.kind = "HUB75" /\ ~device.matrix
                      THEN "in_noop" ELSE "in_draw"
            /\ inflight' = inflight \cup {[t |-> WorkerId, call |-> "draw"]}
            /\ UNCHANGED <<wsrc, widx, wframe>>
    /\ UNCHANGED <<shared, now, pc, arg, cfg_device, device, lock, bpc,
                   decodable, pix, drawn>>

\* line 171: Device.draw returns; a matrix that was closed during the draw
\* makes Hub75Driver raise instead
WDrawReturn ==
    /\ wpc \in {"in_draw", "in_noop"}
    /\ (wpc = "in_draw" /\ device.kind = "HUB75") => device.matrix
    /\ device' = IF wpc = "in_draw" THEN DrawRgbFrame(device, wframe) ELSE device
    /\ inflight' = inflight \ {[t |-> WorkerId, call |-> "draw"]}
    /\ wpc' = "commit"
    /\ drawn' = IF drawn = NoCount THEN NoCount ELSE Min(drawn + 1, 2)
    /\ UNCHANGED <<shared, now, pc, arg, cfg_device, lock, bpc, decodable,
                   wsrc, widx, wframe, wsnap, pix>>

\* faulty variant of WDrawError: the error leaves _run and the thread ends
WDrawError_Dies ==
    /\ wpc = "in_draw"
    /\ device.kind = "HUB75"
    /\ inflight' = inflight \ {[t |-> WorkerId, call |-> "draw"]}
    /\ wpc' = "dead"
    /\ WReset
    /\ wsnap' = NoSnap
    /\ UNCHANGED <<shared, now, pc, arg, cfg_device, device, lock, bpc,
                   decodable, pix, drawn>>

\* faulty variant of WDrawError: the frame that failed is counted and stored
WDrawError_Counts ==
    /\ wpc = "in_draw"
    /\ device.kind = "HUB75"
    /\ inflight' = inflight \ {[t |-> WorkerId, call |-> "draw"]}
    /\ wpc' = "backoff"
    /\ WReset
    /\ wsnap' = NoSnap
    /\ latest_image' = wframe
    /\ stats' = [stats EXCEPT !.frames = Min(@ + 1, MaxFrames)]
    /\ UNCHANGED <<ctl, render, mapper, now, pc, arg, cfg_device, device, lock,
                   bpc, decodable, pix, drawn>>

\* hub75.py, lines 172-173: the hardware write fails (or the matrix was
\* closed meanwhile) and draw_rgb_frame raises RuntimeError; _run catches it
\* in lines 134 and 147
WDrawError ==
    /\ wpc = "in_draw"
    /\ device.kind = "HUB75"
    /\ inflight' = inflight \ {[t |-> WorkerId, call |-> "draw"]}
    /\ wpc' = "backoff"
    /\ WReset
    /\ wsnap' = NoSnap
    /\ UNCHANGED <<shared, now, pc, arg, cfg_device, device, lock, bpc,
                   decodable, pix, drawn>>

\* _draw_frame, lines 173-176: publish the frame and count it
WCommit ==
    /\ wpc = "commit"
    /\ lock = NoThread
    /\ stats.frames < MaxFrames
    /\ latest_image' = wframe
    /\ stats' = [stats EXCEPT !.frames = @ + 1, !.last_draw_ms = 1]
    /\ wpc' = IF wsrc.op = "builtin" THEN "b_chk2" ELSE "a_chk1"
    /\ wsnap' = NoSnap
    /\ UNCHANGED <<ctl, render, mapper, now, pc, arg, env, pix, drawn, wsrc,
                   widx, wframe>>

\* lines 135 and 149: the sleep after a caught exception, 100 ms in the
\* pattern branch and 250 ms in the asset branch
WBackoff ==
    /\ wpc = "backoff"
    /\ wpc' = "top"
    /\ UNCHANGED <<shared, now, pc, arg, env, pix, drawn, wsrc, widx, wframe,
                   wsnap>>

\* anims.scrolling_text, line 54: ImageDraw.textsize is missing in recent
\* Pillow releases, so the generator raises when its first frame is taken
PatternCanFail(name) == name = "scrolling_text"

\* lines 123-125 and 134-136: taking the pattern's first frame raises
WBuiltinError ==
    /\ wpc = "rd_name"
    /\ lock = NoThread
    /\ ~NameIsFalsy(builtin_name)
    /\ PatternCanFail(builtin_name)
    /\ wpc' = "backoff"
    /\ WReset
    /\ UNCHANGED <<shared, now, pc, arg, env, pix, drawn, wsnap>>

\* lines 129-132 and 125: sleep, check run_event, take the generator's next frame
WBuiltinCheck2 ==
    /\ wpc = "b_chk2"
    /\ IF run_event
       THEN /\ wpc' = "b_chk1"
            /\ wframe' = BuiltinFrame(wsrc.name, wsrc.params)
            /\ UNCHANGED <<wsrc, widx>>
       ELSE wpc' = "top" /\ WReset
    /\ UNCHANGED <<shared, now, pc, arg, env, pix, drawn, wsnap>>

\* line 139: the asset's sequence yields its next frame
WAssetFrame ==
    /\ wpc = "a_next"
    /\ widx < FrameCount(wsrc.path)
    /\ wframe' = AssetFrame(wsrc.path, widx + 1)
    /\ widx' = widx + 1
    /\ wpc' = "draw"
    /\ UNCHANGED <<shared, now, pc, arg, env, pix, drawn, wsnap, wsrc>>

\* line 139: the sequence ends normally; the for loop is left and _run's
\* while loop starts over
WAssetExhausted ==
    /\ wpc = "a_next"
    /\ widx >= FrameCount(wsrc.path)
    /\ ~DecodeFails(wsrc.path)
    /\ wpc' = "top"
    /\ WReset
    /\ UNCHANGED <<shared, now, pc, arg, env, pix, drawn, wsnap>>

\* faulty variant of WAssetError: the failure ends the playback
WAssetError_GoesIdle ==
    /\ wpc = "a_next"
    /\ widx >= FrameCount(wsrc.path)
    /\ DecodeFails(wsrc.path)
    /\ wpc' = "backoff"
    /\ WReset
    /\ run_event' = FALSE
    /\ current_path' = NoPath
    /\ UNCHANGED <<builtin_name, builtin_params, stats, latest_image, render,
                   mapper, now, pc, arg, env, pix, drawn, wsnap>>

\* lines 147-148: the loader raises and _run catches the exception
WAssetError ==
    /\ wpc = "a_next"
    /\ widx >= FrameCount(wsrc.path)
    /\ DecodeFails(wsrc.path)
    /\ wpc' = "backoff"
    /\ WReset
    /\ UNCHANGED <<shared, now, pc, arg, env, pix, drawn, wsnap>>

\* lines 141-142: the asset loop's check after the draw
WAssetCheck1 ==
    /\ wpc = "a_chk1"
    /\ IF run_event THEN wpc' = "a_chk2" /\ UNCHANGED <<wsrc, widx, wframe>>
                    ELSE wpc' = "top" /\ WReset
    /\ UNCHANGED <<shared, now, pc, arg, env, pix, drawn, wsnap>>

\* lines 143-146: sleep, then the check after the sleep
WAssetCheck2 ==
    /\ wpc = "a_chk2"
    /\ IF run_event THEN wpc' = "a_next" /\ UNCHANGED <<wsrc, widx, wframe>>
                    ELSE wpc' = "top" /\ WReset
    /\ UNCHANGED <<shared, now, pc, arg, env, pix, drawn, wsnap>>

\* polling, the asset loop and the draw of a frame
WorkerAsset ==
    \/ WTop \/ WReadPath \/ WReadName
    \/ WTransform \/ WColor \/ WDrawReturn \/ WCommit
    \/ WAssetFrame \/ WAssetExhausted \/ WAssetError \/ WBackoff
    \/ WAssetCheck1 \/ WAssetCheck2

\* the checks of the pattern loop
WorkerPattern == WBuiltinCheck1 \/ WBuiltinCheck2

Worker == WorkerAsset \/ WorkerPattern

---------------------------------------------------------------------------
(* Boot and shutdown of the process, app.create_app and the signal handler *)

\* Mapper(config) as Renderer.__init__ constructs it, line 27
BootMapper(tag) ==
    IF MapperReadsFile(tag) THEN [ws_map |-> MapFile] ELSE NewMapper(DefaultRender)

\* the process starts: no device yet, no Renderer, no request is served
InitBoot ==
    /\ run_event = FALSE
    /\ current_path = NoPath
    /\ builtin_name = NoName
    /\ builtin_params = EmptyDict
    /\ stats = InitStats
    /\ latest_image = NoFrame
    /\ render = DefaultRender
    /\ mapper = NewMapper(DefaultRender)
    /\ now = 1
    /\ pc = [c \in Callers |-> "boot"]
    /\ arg = [c \in Callers |-> NoArg]
    /\ wpc = "boot"
    /\ wsrc = NoArg
    /\ widx = 0
    /\ wframe = NoFrame
    /\ wsnap = NoSnap
    /\ cfg_device \in InputTags
    /\ device = NoDevice
    /\ inflight = {}
    /\ lock = NoThread
    /\ bpc = "create"
    /\ decodable = InitDecodable
    /\ drawn = NoCount
    /\ PixOff

\* create_app, line 80: the factory builds the driver of the configured tag;
\* it has no statement that raises for a tag, so lines 85-93 are not entered
BootCreate ==
    /\ bpc = "create"
    /\ device' = CreateOutputDevice(cfg_device)
    /\ bpc' = "open"
    /\ UNCHANGED <<shared, now, pc, arg, wvars, cfg_device, inflight, lock,
                   decodable, pix, drawn>>

\* create_app, lines 82-84: device.open() inside _suppress_ex, whose __exit__
\* returns True for every exception (lines 480-484): when open() raises, the
\* error is logged and the driver is stored as it is
BootOpen(ok) ==
    /\ bpc = "open"
    /\ ok \/ OpenCanFail(device)
    /\ device' = IF ok THEN DeviceOpen(device) ELSE device
    /\ bpc' = "renderer"
    /\ UNCHANGED <<shared, now, pc, arg, wvars, cfg_device, inflight, lock,
                   decodable, pix, drawn>>

\* create_app, lines 96-98 and 300: Renderer.__init__ builds the mapper and
\* starts the worker thread; the handlers are installed and requests served
BootRenderer ==
    /\ bpc = "renderer"
    /\ mapper' = BootMapper(cfg_device)
    /\ wpc' = "top"
    /\ pc' = [c \in Callers |-> "idle"]
    /\ bpc' = "serving"
    /\ UNCHANGED <<ctl, stats, latest_image, render, now, arg, wsrc, widx,
                   wframe, wsnap, cfg_device, device, inflight, lock,
                   decodable, pix, drawn>>

\* _shutdown_handler, lines 452-456: on SIGINT or SIGTERM the main thread
\* closes the device; the worker is neither told to stop nor waited for
SigClose ==
    /\ bpc = "serving"
    /\ device' = DeviceClose(device)
    /\ bpc' = "closed"
    /\ UNCHANGED <<shared, now, pc, arg, wvars, cfg_device, inflight, lock,
                   decodable, pix, drawn>>

\* _shutdown_handler, line 463: os._exit(0) ends the process and its threads
SigExit ==
    /\ bpc = "closed"
    /\ bpc' = "exited"
    /\ wpc' = "exited"
    /\ pc' = [c \in Callers |-> "exited"]
    /\ inflight' = {}
    /\ lock' = NoThread
    /\ UNCHANGED <<shared, now, arg, wsrc, widx, wframe, wsnap, cfg_device,
                   device, decodable, pix, drawn>>

\* set_brightness(value01), the value in percent: the preview driver stores
\* the clamped value, Hub75Driver sets it on its matrix if it has one
SetBrightness(d, pct) ==
    CASE d.kind = "PREVIEW" -> [d EXCEPT !.brightness = Max(0, Min(100, pct))]
      [] d.kind = "HUB75" ->
             IF d.matrix THEN [d EXCEPT !.brightness = Max(0, Min(100, pct))]
                         ELSE d
      [] OTHER -> d

\* the frames and brightness values passed to a driver called on its own
InputFrames ==
    {AssetFrame(ImgPath, 1), AssetFrame(GifPath, 1), AssetFrame(GifPath, 2),
     BuiltinFrame("color_cycle", EmptyDict)}
InputBrightness == {0, 50, 150}

\* open() of a constructed or closed driver; when it raises, nothing is set
DevOpen(ok) ==
    /\ bpc \in {"open", "dev_closed"}
    /\ ok \/ OpenCanFail(device)
    /\ device' = IF ok THEN DeviceOpen(device) ELSE device
    /\ bpc' = IF ok THEN "dev_open" ELSE bpc
    /\ UNCHANGED <<shared, now, pc, arg, wvars, cfg_device, inflight, lock,
                   decodable, pix, drawn>>

\* close() of a constructed or opened driver
DevClose ==
    /\ bpc \in {"open", "dev_open"}
    /\ device' = DeviceClose(device)
    /\ bpc' = "dev_closed"
    /\ UNCHANGED <<shared, now, pc, arg, wvars, cfg_device, inflight, lock,
                   decodable, pix, drawn>>

\* draw_rgb_frame of a driver in any stage of its life
DevDraw(f) ==
    /\ bpc \in {"open", "dev_open", "dev_closed"}
    /\ device' = DrawRgbFrame(device, f)
    /\ UNCHANGED <<shared, now, pc, arg, wvars, cfg_device, inflight, lock,
                   bpc, decodable, pix, drawn>>

\* set_brightness of a driver in any stage of its life
DevSetBrightness(pct) ==
    /\ bpc \in {"open", "dev_open", "dev_closed"}
    /\ device' = SetBrightness(device, pct)
    /\ UNCHANGED <<shared, now, pc, arg, wvars, cfg_device, inflight, lock,
                   bpc, decodable, pix, drawn>>

\* the environment: the corrupt file is replaced by one that decodes
FsRepair ==
    /\ BadPath \notin decodable
    /\ decodable' = decodable \cup {BadPath}
    /\ UNCHANGED <<shared, now, pc, arg, wvars, cfg_device, device, inflight,
                   lock, bpc, pix, drawn>>

---------------------------------------------------------------------------
(* Frames as rasters: the Transform, Color Correction and Pixel Mapper     *)
(* stages, the loaders and the panel, handled one frame at a time          *)

\* largest width and height of the rasters the stages are applied to
MaxDim == 2

\* a Pillow image in RGB mode: its size and the pixel at every (x, y)
Coords(w, h) == (0 .. w - 1) \X (0 .. h - 1)
Image(w, h, px) == [w |-> w, h |-> h, px |-> px]
GetPixel(img, x, y) == img.px[<<x, y>>]

\* Image.rotate(angle, expand=True) by quarter turns, counter-clockwise; the
\* canvas of a 90 or 270 degree turn has the width and height exchanged
Rotate(img, angle) ==
    CASE angle = 90 ->
             Image(img.h, img.w,
                 [x \in 0 .. img.h - 1, y \in 0 .. img.w - 1 |->
                     GetPixel(img, img.w - 1 - y, x)])
      [] angle = 180 ->
             Image(img.w, img.h,
                   [x \in 0 .. img.w - 1, y \in 0 .. img.h - 1 |->
                       GetPixel(img, img.w - 1 - x, img.h - 1 - y)])
      [] angle = 270 ->
             Image(img.h, img.w,
                 [x \in 0 .. img.h - 1, y \in 0 .. img.w - 1 |->
                     GetPixel(img, y, img.h - 1 - x)])
      [] OTHER -> img

\* Image.transpose(FLIP_LEFT_RIGHT) and Image.transpose(FLIP_TOP_BOTTOM)
FlipLeftRight(img) ==
    Image(img.w, img.h,
        [x \in 0 .. img.w - 1, y \in 0 .. img.h - 1 |->
            GetPixel(img, img.w - 1 - x, y)])
FlipTopBottom(img) ==
    Image(img.w, img.h,
        [x \in 0 .. img.w - 1, y \in 0 .. img.h - 1 |->
            GetPixel(img, x, img.h - 1 - y)])

\* Image.resize: the same size gives a copy; another size resamples, each
\* output pixel taken here from the source pixel under its centre (the
\* weights LANCZOS and BILINEAR give to the neighbouring pixels are left out)
Resize(img, tw, th) ==
    IF tw = img.w /\ th = img.h
    THEN img
    ELSE Image(tw, th,
               [x \in 0 .. tw - 1, y \in 0 .. th - 1 |->
                   GetPixel(img, ((2 * x + 1) * img.w) \div (2 * tw),
                                 ((2 * y + 1) * img.h) \div (2 * th))])

\* the sizes of config["ws2811"] and config["hub75"]; 0 stands for a key
\* that is absent, which `or` and `if` treat like 0
NoTopology ==
    [ws2811 |-> [width |-> 0, height |-> 0], hub75 |-> [cols |-> 0, rows |-> 0]]

\* Mapper.apply_transforms, lines 60-67: the ws2811 size, else the hub75 size
TargetW(topo) ==
    IF topo.ws2811.width # 0 THEN topo.ws2811.width ELSE topo.hub75.cols
TargetH(topo) ==
    IF topo.ws2811.height # 0 THEN topo.ws2811.height ELSE topo.hub75.rows

\* Mapper.apply_transforms, lines 42-74
ApplyTransforms(img, r, topo) ==
    LET rotate == r.rotate % 360
        rotated == IF rotate \in {90, 180, 270} THEN Rotate(img, rotate) ELSE img
        flipped == IF r.mirror_x THEN FlipLeftRight(rotated) ELSE rotated
        mirrored == IF r.mirror_y THEN FlipTopBottom(flipped) ELSE flipped
    IN IF TargetW(topo) # 0 /\ TargetH(topo) # 0
       THEN Resize(mirrored, TargetW(topo), TargetH(topo))
       ELSE mirrored

RECURSIVE Pow(_, _)
Pow(b, e) == IF e = 0 THEN 1 ELSE b * Pow(b, e - 1)

\* gamma.py, lines 28 and 34-35, for the gammas 1.0, 2.0 and 3.0 (g is 1, 2
\* or 3), where the power is a root that integers decide:
\* int(pow(i / 255.0, 1.0 / g) * 255.0 + 0.5) is the r with
\* (2r-1)^g <= 2^g * 255^(g-1) * i < (2r+1)^g
Lut(g, i) ==
    LET x == Pow(2, g) * Pow(255, g - 1) * i
    IN CHOOSE r \in 0 .. 255 :
           /\ x < Pow(2 * r + 1, g)
           /\ r = 0 \/ Pow(2 * r - 1, g) <= x

\* gamma.py, lines 40-42: int(max(0, min(255, v * mul))), the multiplier
\* times ten; int() drops the fraction
BalanceChannel(v, m) == Max(0, Min(255, (v * m) \div 10))

\* gamma.py, lines 28-43, on one channel value: gamma and multiplier times
\* ten, both clamped, the table first and the multiplier on its result
GammaBalance(v, gamma, m) ==
    BalanceChannel(Lut(Max(10, Min(30, gamma)) \div 10, v), Max(5, Min(15, m)))

\* gamma.apply_gamma_rgb_balance
ApplyGammaRgbBalance(img, gamma, rgb_balance) ==
    Image(img.w, img.h,
          [x \in 0 .. img.w - 1, y \in 0 .. img.h - 1 |->
              [ch \in 1 .. 3 |->
                  GammaBalance(GetPixel(img, x, y)[ch], gamma, rgb_balance[ch])]])

\* Image.getdata(): the pixels row by row
GetData(img) ==
    [i \in 1 .. img.w * img.h |->
        GetPixel(img, (i - 1) % img.w, (i - 1) \div img.w)]

\* Mapper.map_for_ws2811, lines 88-92: the loop over the map's entries
RECURSIVE MapEntries(_, _)
MapEntries(entries, img) ==
    IF entries = <<>>
    THEN <<>>
    ELSE LET entry == Head(entries)
             hit == /\ 0 <= entry.x /\ entry.x < img.w
                    /\ 0 <= entry.y /\ entry.y < img.h
         IN (IF hit THEN <<GetPixel(img, entry.x, entry.y)>> ELSE <<>>)
                \o MapEntries(Tail(entries), img)

\* faulty variant of MapForWs2811: an entry out of bounds ends the output
MapForWs2811_StopsAtMiss(ws_map, img) ==
    IF ws_map # <<>>
    THEN LET all == MapEntries(ws_map, img)
             miss == {i \in DOMAIN ws_map :
                         ~(/\ 0 <= ws_map[i].x /\ ws_map[i].x < img.w
                           /\ 0 <= ws_map[i].y /\ ws_map[i].y < img.h)}
         IN IF miss = {} THEN all
            ELSE MapEntries(SubSeq(ws_map, 1,
                     (CHOOSE i \in miss : \A j \in miss : i <= j) - 1), img)
    ELSE GetData(img)

\* Mapper.map_for_ws2811, lines 76-98: a list that is empty counts as no map
MapForWs2811(ws_map, img) ==
    IF ws_map # <<>> THEN MapEntries(ws_map, img) ELSE GetData(img)

\* the rasters handled: a ramp, every pixel with a red of its own, the solid
\* (10, 20, 30) of the repository's tests, and stripes of saturated colours
Ramp(w, h) == Image(w, h,
    [x \in 0 .. w - 1, y \in 0 .. h - 1 |->
        <<10 * (y * w + x) + 10, 20, 30>>])
Solid(w, h) == Image(w, h,
    [x \in 0 .. w - 1, y \in 0 .. h - 1 |->
        <<10, 20, 30>>])
Stripes(w, h) == Image(w, h,
    [x \in 0 .. w - 1, y \in 0 .. h - 1 |->
        <<255 - 50 * x, 100 * y, 1>>])
InputImages ==
    {Ramp(w, h) : w \in 1 .. MaxDim, h \in 1 .. MaxDim}
        \cup {Solid(w, h) : w \in 1 .. MaxDim, h \in 1 .. MaxDim}
        \cup {Stripes(w, h) : w \in 1 .. MaxDim, h \in 1 .. MaxDim}

\* coordinate maps as config/ws2811.map.json can hold them: none, maps in
\* another order than the rows, maps with entries outside the raster
InputMaps ==
    {<<>>,
     <<[x |-> 1, y |-> 0], [x |-> 0, y |-> 0]>>,
     <<[x |-> 0, y |-> 1], [x |-> 5, y |-> 0], [x |-> 0, y |-> 0]>>,
     <<[x |-> -1, y |-> 0], [x |-> 0, y |-> 0], [x |-> 0, y |-> 0]>>,
     <<[x |-> 0, y |-> 0]>>,
     <<[x |-> 0, y |-> 0], [x |-> 0, y |-> -1]>>,
     <<[x |-> 1, y |-> 1], [x |-> 0, y |-> 1], [x |-> 1, y |-> 0],
       [x |-> 0, y |-> 0]>>,
     <<[x |-> 0, y |-> 2]>>}

\* the topologies of the configuration: no size, a strip of 2 x 1, and a
\* panel of 2 x 2 with a strip size that wins over it
InputTopologies ==
    {NoTopology,
     [NoTopology EXCEPT !.ws2811 = [width |-> 2, height |-> 1]],
     [ws2811 |-> [width |-> 2, height |-> 2], hub75 |-> [cols |-> 1, rows |-> 1]]}

\* the RenderConfigs of the frames handled on their own
DrawRenders ==
    {[DefaultRender EXCEPT !.gamma = 10],
     [DefaultRender EXCEPT !.gamma = 20, !.rotate = 90,
                           !.rgb_balance = <<15, 10, 5>>],
     [DefaultRender EXCEPT !.gamma = 30, !.mirror_x = TRUE]}

\* everything but the RenderConfig, the mapper and the frame handled on its
\* own: the Renderer as constructed, no call made
prog == <<run_event, current_path, builtin_name, builtin_params, stats,
          latest_image, now, pc, arg, wvars, env, drawn>>
AtRest ==
    /\ run_event = FALSE
    /\ current_path = NoPath
    /\ builtin_name = NoName
    /\ builtin_params = EmptyDict
    /\ stats = InitStats
    /\ latest_image = NoFrame
    /\ now = 1
    /\ pc = [c \in Callers |-> "idle"]
    /\ arg = [c \in Callers |-> NoArg]
    /\ wpc = "top"
    /\ wsrc = NoArg
    /\ widx = 0
    /\ wframe = NoFrame
    /\ wsnap = NoSnap
    /\ cfg_device = TagWs2811
    /\ device = DeviceOpen(CreateOutputDevice(TagWs2811))
    /\ inflight = {}
    /\ lock = NoThread
    /\ bpc = "serving"
    /\ decodable = InitDecodable
    /\ drawn = NoCount

\* a frame enters _draw_frame
InitDraw ==
    /\ AtRest
    /\ render \in DrawRenders
    /\ mapper \in {[ws_map |-> m] : m \in InputMaps}
    /\ pstage = "frame"
    /\ pcfg \in InputTopologies
    /\ pimg \in InputImages
    /\ pout = <<>>

\* _draw_frame, line 153
DrawFrameTransform ==
    /\ pstage = "frame"
    /\ pimg' = ApplyTransforms(pimg, render, pcfg)
    /\ pstage' = "transformed"
    /\ UNCHANGED <<prog, render, mapper, pcfg, pout>>

\* _draw_frame, lines 154-167
DrawFrameColor ==
    /\ pstage = "transformed"
    /\ pimg' = ApplyGammaRgbBalance(pimg, render.gamma, render.rgb_balance)
    /\ pstage' = "corrected"
    /\ UNCHANGED <<prog, render, mapper, pcfg, pout>>

\* _draw_frame, lines 169-171: the size and img.getdata() go to the device;
\* the mapper is used for nothing but the transform
DrawFrameDevice ==
    /\ pstage = "corrected"
    /\ pout' = GetData(pimg)
    /\ pstage' = "drawn"
    /\ UNCHANGED <<prog, render, mapper, pcfg, pimg>>

\* a raster and a mapper meet in map_for_ws2811
InitSerialize ==
    /\ AtRest
    /\ render = DefaultRender
    /\ mapper \in {[ws_map |-> m] : m \in InputMaps}
    /\ pstage = "image"
    /\ pcfg = NoTopology
    /\ pimg \in InputImages
    /\ pout = <<>>

\* Mapper.map_for_ws2811 is called and returns the list `ordered`
Serialize ==
    /\ pstage = "image"
    /\ pout' = MapForWs2811(mapper.ws_map, pimg)
    /\ pstage' = "mapped"
    /\ UNCHANGED <<prog, render, mapper, pcfg, pimg>>

\* the gammas and channel multipliers (times ten) the correction is given
InputGammas == {10, 20, 30}
InputBalances == {5, 10, 15}

\* a uniform-gray pixel of every channel value meets every gamma and balance
InitGamma ==
    /\ AtRest
    /\ render \in {[DefaultRender EXCEPT !.gamma = g, !.rgb_balance = <<m, m, m>>] :
                      g \in InputGammas, m \in InputBalances}
    /\ mapper = NewMapper(DefaultRender)
    /\ pstage = "gray"
    /\ pcfg \in 0 .. 255
    /\ pimg = Image(1, 1, [x \in 0 .. 0, y \in 0 .. 0 |-> <<pcfg, pcfg, pcfg>>])
    /\ pout = <<>>

\* apply_gamma_rgb_balance is called and returns the corrected image
ColorCorrect ==
    /\ pstage = "gray"
    /\ pimg' = ApplyGammaRgbBalance(pimg, render.gamma, render.rgb_balance)
    /\ pstage' = "corrected"
    /\ UNCHANGED <<prog, render, mapper, pcfg, pout>>

\* a raster is about to go through the Transform stage several times over,
\* with no mirror and a rotation of 0 or 90 degrees
InitTransform ==
    /\ AtRest
    /\ render \in {[DefaultRender EXCEPT !.rotate = a] : a \in {0, 90}}
    /\ mapper = NewMapper(DefaultRender)
    /\ pstage = "image"
    /\ pimg \in InputImages
    /\ pcfg \in {[topo |-> t, orig |-> pimg, times |-> 0] : t \in InputTopologies}
    /\ pout = <<>>

\* Mapper.apply_transforms is applied to the raster, or to the result of the
\* application before, up to four times
Transform ==
    /\ pstage \in {"image", "transformed"}
    /\ pcfg.times < 4
    /\ pimg' = ApplyTransforms(pimg, render, pcfg.topo)
    /\ pcfg' = [pcfg EXCEPT !.times = @ + 1]
    /\ pstage' = "transformed"
    /\ UNCHANGED <<prog, render, mapper, pout>>

\* an image file as it is stored: the mode, the size and the stored value of
\* every pixel, a sequence of channel values: the gray value in mode L, three
\* colours in mode RGB, and a fourth value, alpha, in mode RGBA; made here
\* from a raster
StoredAs(img, mode, alpha) ==
    [mode |-> mode, w |-> img.w, h |-> img.h,
     px |-> [c \in Coords(img.w, img.h) |->
                CASE mode = "L" -> <<img.px[c][1]>>
                  [] mode = "RGBA" -> img.px[c] \o <<alpha>>
                  [] OTHER -> img.px[c]]]

\* a file Image.open cannot identify
CorruptFile ==
    [mode |-> "corrupt", w |-> 0, h |-> 0, px |-> [c \in Coords(0, 0) |-> <<>>]]

\* the still images load_image is given, the 3 x 3 image of test_frames.py
\* among them
InputFiles ==
    {StoredAs(img, "RGB", 255) : img \in InputImages \cup {Solid(3, 3)}}
        \cup {StoredAs(img, "L", 255) : img \in InputImages}
        \cup {StoredAs(img, "RGBA", a) : img \in InputImages, a \in {0, 255}}
        \cup {CorruptFile}

\* faulty variant of ConvertRgb: the channels come out in the order B, G, R
ConvertRgb_Bgr(file) ==
    Image(file.w, file.h,
          [x \in 0 .. file.w - 1, y \in 0 .. file.h - 1 |->
              LET v == file.px[<<x, y>>] IN
              CASE file.mode = "L" -> <<v[1], v[1], v[1]>>
                [] OTHER -> <<v[3], v[2], v[1]>>])

\* Image.open(path).convert("RGB"), frames.py line 22: a gray value becomes
\* three equal channels, an alpha value is dropped
ConvertRgb(file) ==
    Image(file.w, file.h,
          [x \in 0 .. file.w - 1, y \in 0 .. file.h - 1 |->
              LET v == file.px[<<x, y>>] IN
              CASE file.mode = "L" -> <<v[1], v[1], v[1]>>
                [] file.mode = "RGBA" -> <<v[1], v[2], v[3]>>
                [] OTHER -> v])

\* frames.Frame(image, duration_ms)
RasterFrame(image, duration_ms) == [image |-> image, duration_ms |-> duration_ms]

\* load_image(path) is called: the generator is created, nothing is read yet
InitLoad ==
    /\ AtRest
    /\ render = DefaultRender
    /\ mapper = NewMapper(DefaultRender)
    /\ pstage = "opened"
    /\ pcfg \in InputFiles
    /\ pimg = <<>>
    /\ pout = <<>>

\* load_image, lines 22-23: the first next() decodes the file and yields the
\* one Frame
LoadImageYield ==
    /\ pstage = "opened"
    /\ pcfg.mode # "corrupt"
    /\ pimg' = ConvertRgb(pcfg)
    /\ pout' = Append(pout, RasterFrame(pimg', NoDur))
    /\ pstage' = "yielded"
    /\ UNCHANGED <<prog, render, mapper, pcfg>>

\* load_image, lines 24-25: Image.open raises and RuntimeError leaves the
\* generator
LoadImageRaise ==
    /\ pstage = "opened"
    /\ pcfg.mode = "corrupt"
    /\ pstage' = "raised"
    /\ UNCHANGED <<prog, render, mapper, pcfg, pimg, pout>>

\* load_image: the second next() runs off the end of the function and the
\* sequence ends
LoadImageEnd ==
    /\ pstage = "yielded"
    /\ pstage' = "ended"
    /\ UNCHANGED <<prog, render, mapper, pcfg, pimg, pout>>

\* the values of Frame.duration_ms the loaders and patterns produce: None,
\* the 0 of a video of more than 1000 frames per second, and milliseconds
InputDurations == {NoDur, 0, 16, 30, 33, 50, 100, 1000}

\* the values of render.fps_cap a configuration file or a caller of
\* set_render_params can store, in and out of the range 1..240; NonNumeric is
\* a value float() cannot convert
InputFpsCaps == {-5, 0, 1, 30, 60, 240, 241, 1000, NonNumeric}

\* faulty variant of FrameDurationMs: the stored cap is used as it is
FrameDurationMs_NoClamp(duration_ms, fps_cap) ==
    IF duration_ms # NoDur /\ duration_ms # 0 /\ duration_ms > 0
    THEN [num |-> duration_ms, den |-> 1]
    ELSE [num |-> 1000, den |-> fps_cap]

\* Renderer._frame_duration_ms, lines 180-187, for a cap that is a number:
\* the interval in milliseconds as the fraction num / den
FrameDurationMs(duration_ms, fps_cap) ==
    IF duration_ms # NoDur /\ duration_ms # 0 /\ duration_ms > 0
    THEN [num |-> duration_ms, den |-> 1]
    ELSE [num |-> 1000, den |-> Max(1, Min(240, fps_cap))]

\* a frame has been drawn and _frame_duration_ms is called with it
InitPacing ==
    /\ AtRest
    /\ render \in {[DefaultRender EXCEPT !.fps_cap = f] : f \in InputFpsCaps}
    /\ mapper = NewMapper(DefaultRender)
    /\ pstage = "drawn"
    /\ pcfg \in InputDurations
    /\ pimg = <<>>
    /\ pout = <<>>

\* _frame_duration_ms returns the interval the worker then sleeps, lines 129
\* and 143
FrameDuration ==
    /\ pstage = "drawn"
    /\ (pcfg = NoDur \/ pcfg <= 0) => render.fps_cap # NonNumeric
    /\ pout' = FrameDurationMs(pcfg, render.fps_cap)
    /\ pstage' = "paced"
    /\ UNCHANGED <<prog, render, mapper, pcfg, pimg>>

\* _frame_duration_ms, line 183: float() raises on a cap that is no number,
\* and the exception goes to the except clause of _run
FrameDurationRaise ==
    /\ pstage = "drawn"
    /\ pcfg = NoDur \/ pcfg <= 0
    /\ render.fps_cap = NonNumeric
    /\ pstage' = "raised"
    /\ UNCHANGED <<prog, render, mapper, pcfg, pimg, pout>>

\* the largest width and height of a panel
MaxPanel == 3

Black == <<0, 0, 0>>

\* the offscreen canvas of a panel of pw x ph after CreateFrameCanvas
BlankCanvas(pw, ph) == [c \in Coords(pw, ph) |-> Black]

\* Hub75Driver.draw_rgb_frame, lines 141-164: the canvas after the two loops.
\* idx starts at 0 and grows by one per SetPixel, so the pixel set at (x, y)
\* is data[y * draw_w + x] (in Python's numbering from 0), black when the
\* data is shorter
Hub75SetPixels(canvas, pw, ph, width, height, data) ==
    LET target_w == IF pw # 0 THEN pw ELSE width
        target_h == IF ph # 0 THEN ph ELSE height
        draw_w == Min(width, target_w)
        draw_h == Min(height, target_h)
    IN  [c \in DOMAIN canvas |->
            IF c[1] < draw_w /\ c[2] < draw_h
            THEN LET idx == c[2] * draw_w + c[1]
                 IN  IF idx < Len(data) THEN data[idx + 1] ELSE Black
            ELSE canvas[c]]

\* a Hub75Driver of pw x ph, opened or not, and a frame the renderer hands to
\* draw_rgb_frame as (width, height, getdata())
InitPanel ==
    /\ AtRest
    /\ render = DefaultRender
    /\ mapper = NewMapper(DefaultRender)
    /\ pstage = "frame"
    /\ pcfg \in [width : 1 .. MaxPanel, height : 1 .. MaxPanel, matrix : BOOLEAN]
    /\ pimg \in InputImages
    /\ pout = [canvas |-> BlankCanvas(pcfg.width, pcfg.height), swaps |-> 0]

\* draw_rgb_frame on an opened panel: the pixels are set on the offscreen
\* canvas and SwapOnVSync is called once, lines 166-170
Hub75Draw ==
    /\ pstage = "frame"
    /\ pcfg.matrix
    /\ pout' = [canvas |-> Hub75SetPixels(pout.canvas, pcfg.width, pcfg.height,
                                        pimg.w, pimg.h, GetData(pimg)),
                swaps |-> pout.swaps + 1]
    /\ pstage' = "swapped"
    /\ UNCHANGED <<prog, render, mapper, pcfg, pimg>>

\* draw_rgb_frame before open(), lines 136-138: nothing is drawn
Hub75DrawNoop ==
    /\ pstage = "frame"
    /\ ~pcfg.matrix
    /\ pstage' = "skipped"
    /\ UNCHANGED <<prog, render, mapper, pcfg, pimg, pout>>

\* the dicts a direct caller of set_render_params stores in SpecFaults: a
\* gamma and a rotate that are no numbers, and values that repair both
FaultRenderParams ==
    {[gamma |-> NonNumeric], [rotate |-> NonNumeric],
     [gamma |-> 22, rotate |-> 0]}

\* the Renderer is running on an opened LED matrix
InitFaults ==
    /\ run_event = FALSE
    /\ current_path = NoPath
    /\ builtin_name = NoName
    /\ builtin_params = EmptyDict
    /\ stats = InitStats
    /\ latest_image = NoFrame
    /\ render = DefaultRender
    /\ mapper = NewMapper(DefaultRender)
    /\ now = 1
    /\ pc = [c \in Callers |-> "idle"]
    /\ arg = [c \in Callers |-> NoArg]
    /\ wpc = "top"
    /\ wsrc = NoArg
    /\ widx = 0
    /\ wframe = NoFrame
    /\ wsnap = NoSnap
    /\ cfg_device = TagHub75
    /\ device = DeviceOpen(CreateOutputDevice(TagHub75))
    /\ inflight = {}
    /\ lock = NoThread
    /\ bpc = "serving"
    /\ decodable = InitDecodable
    /\ drawn = NoCount
    /\ PixOff

\* Renderer._target_size, lines 213-224: the hub75 size, else the ws2811
\* size, else 64
TargetSize(topo) ==
    [w |-> IF topo.hub75.cols # 0 THEN topo.hub75.cols
           ELSE IF topo.ws2811.width # 0 THEN topo.ws2811.width ELSE 64,
     h |-> IF topo.hub75.rows # 0 THEN topo.hub75.rows
           ELSE IF topo.ws2811.height # 0 THEN topo.ws2811.height ELSE 64]

\* Hub75Driver.__init__, lines 18-27: the hub75 size, else the ws2811 size,
\* else 0
Hub75Size(topo) ==
    [w |-> IF topo.hub75.cols # 0 THEN topo.hub75.cols ELSE topo.ws2811.width,
     h |-> IF topo.hub75.rows # 0 THEN topo.hub75.rows ELSE topo.ws2811.height]

\* the configurations: the ws2811 and the hub75 section are each absent or
\* give a width and a height up to MaxDim
SizeTopologies ==
    [ws2811 : {NoTopology.ws2811} \cup [width : 1 .. MaxDim, height : 1 .. MaxDim],
     hub75 : {NoTopology.hub75} \cup [cols : 1 .. MaxDim, rows : 1 .. MaxDim]]

\* a Renderer, its Mapper and a Hub75Driver were constructed from one
\* configuration; pout holds the size the driver took and the size of the
\* pattern canvas, which is not known yet
InitSizes ==
    /\ AtRest
    /\ render \in DrawRenders
    /\ mapper = NewMapper(DefaultRender)
    /\ pstage = "config"
    /\ pcfg \in SizeTopologies
    /\ pimg = <<>>
    /\ pout = [panel |-> Hub75Size(pcfg), canvas |-> [w |-> 0, h |-> 0]]

\* Renderer._open_builtin, lines 196-211: the pattern is created with the
\* size of _target_size and yields a frame of that size
OpenBuiltin ==
    /\ pstage = "config"
    /\ pout' = [pout EXCEPT !.canvas = TargetSize(pcfg)]
    /\ pimg' = Solid(TargetSize(pcfg).w, TargetSize(pcfg).h)
    /\ pstage' = "frame"
    /\ UNCHANGED <<prog, render, mapper, pcfg>>

\* PlaylistState, playlists.py lines 9-13
PlaylistState(items, index, loop) ==
    [items |-> items, index |-> index, loop |-> loop]

\* PlaylistState(): the defaults of the dataclass
FreshPlaylist == PlaylistState(<<>>, 0, TRUE)

\* the item lists callers pass to set_items and storage files hold
InputItemLists == {<<>>, <<"a.gif">>, <<"a.gif", "b.png">>,
                   <<"a.gif", "b.png", "c.gif">>}

\* the storage file when a PlaylistManager is constructed: missing, not
\* readable as JSON with an integer index, or a JSON object with any item
\* list, index and loop flag
InputStoreFiles ==
    {[kind |-> k, state |-> FreshPlaylist] : k \in {"missing", "corrupt"}}
        \cup {[kind |-> "json", state |-> PlaylistState(items, index, loop)] :
                 items \in InputItemLists, index \in -2 .. 3, loop \in BOOLEAN}

\* PlaylistManager._load, lines 24-36: the fields of the file are taken as
\* they are; a missing file and a file that raises leave the fresh state
LoadPlaylist(file) == IF file.kind = "json" THEN file.state ELSE FreshPlaylist

\* PlaylistManager.current, lines 50-55; None is NoName
Current(state) ==
    IF state.items = <<>> THEN NoName
    ELSE IF 0 <= state.index /\ state.index < Len(state.items)
         THEN state.items[state.index + 1]
         ELSE NoName

\* faulty variant of Advance: the index is not brought back into the list
Advance_NoWrap(state) == [state EXCEPT !.index = @ + 1]

\* PlaylistManager.next, lines 60-65: the index after the increment
Advance(state) ==
    LET index == state.index + 1
    IN  IF index >= Len(state.items)
        THEN [state EXCEPT !.index = IF state.loop THEN 0
                                     ELSE Len(state.items) - 1]
        ELSE [state EXCEPT !.index = index]

\* PlaylistManager._save, lines 38-42: the state replaces the file's content
\* when the write succeeds; else the file stays and the exception goes to
\* the caller
Save(file, state, ok) ==
    IF ok THEN [kind |-> "json", state |-> state] ELSE file

\* the value a call hands back: the result, or the exception of _save
Returned(op, ret, ok) == [op |-> op, ret |-> IF ok THEN ret ELSE "<raise>"]

\* a PlaylistManager is about to be constructed on a storage file
InitPlaylist ==
    /\ AtRest
    /\ render = DefaultRender
    /\ mapper = NewMapper(DefaultRender)
    /\ pstage = "new"
    /\ pcfg \in InputStoreFiles
    /\ pimg = FreshPlaylist
    /\ pout = Returned("none", NoName, TRUE)

\* PlaylistManager.__init__, lines 19-22
PlaylistInit ==
    /\ pstage = "new"
    /\ pimg' = LoadPlaylist(pcfg)
    /\ pstage' = "ready"
    /\ pout' = Returned("init", NoName, TRUE)
    /\ UNCHANGED <<prog, render, mapper, pcfg>>

\* PlaylistManager.set_items, lines 44-48
SetItems(items, loop, ok) ==
    /\ pstage = "ready"
    /\ pimg' = PlaylistState(items, 0, loop)
    /\ pcfg' = Save(pcfg, pimg', ok)
    /\ pout' = Returned("set_items", NoName, ok)
    /\ UNCHANGED <<prog, render, mapper, pstage>>

\* PlaylistManager.current, lines 50-55
PlaylistCurrent ==
    /\ pstage = "ready"
    /\ pout' = Returned("current", Current(pimg), TRUE)
    /\ UNCHANGED <<prog, render, mapper, pstage, pcfg, pimg>>

\* PlaylistManager.next, lines 57-67: an empty list returns None at once
PlaylistNext(ok) ==
    /\ pstage = "ready"
    /\ IF pimg.items = <<>>
       THEN /\ pout' = Returned("next", NoName, TRUE)
            /\ UNCHANGED <<pimg, pcfg>>
       ELSE /\ pimg' = Advance(pimg)
            /\ pcfg' = Save(pcfg, pimg', ok)
            /\ pout' = Returned("next", Current(pimg'), ok)
    /\ UNCHANGED <<prog, render, mapper, pstage>>

---------------------------------------------------------------------------
(* Specifications *)

\* the playback control operations
Playback(c) ==
    \/ \E p \in InputPaths : StartCheck(c, p)
    \/ StartRaise(c)
    \/ StartLock(c)
    \/ StartSet(c)
    \/ StopClear(c)
    \/ StopLock(c)
    \/ \E n \in InputNames, ps \in InputParams : StartBuiltinLock(c, n, ps)
    \/ StartBuiltinSet(c)

\* the parameter updates
Params(c) ==
    \/ \E rp \in InputRenderParams : SetRenderParamsCall(c, rp)
    \/ SetRenderParamsLock(c)
    \/ \E payload \in InputPayloads : WsValidate(c, payload)
    \/ WsRaise(c)
    \/ WsUpdate(c)

Next == Playback(1) \/ Params(1) \/ Worker

\* one thread calls the control operations, one call after the other, while
\* the worker runs
Spec == Init /\ [][Next]_vars

\* thread 1 calls start, thread 2 calls stop, with no exclusion between them;
\* no pattern is started, so the worker never enters the pattern loop
NextRace ==
    \/ \E p \in InputPaths : StartCheck(1, p)
    \/ StartRaise(1)
    \/ StartLock(1)
    \/ StartSet(1)
    \/ StopClear(2)
    \/ StopLock(2)
    \/ WorkerAsset

\* start and stop calls of two threads overlap, while the worker runs
SpecRace == Init /\ [][NextRace]_vars

\* the arguments of the calls made in SpecBoot
BootPaths == {ImgPath, BadPath}
BootRenderParams == {[gamma |-> NonNumeric], [rotate |-> 90, gamma |-> 10]}

NextBoot ==
    \/ BootCreate
    \/ \E ok \in BOOLEAN : BootOpen(ok)
    \/ BootRenderer
    \/ \E p \in BootPaths : StartCheck(1, p)
    \/ StartLock(1)
    \/ StartSet(1)
    \/ StartBuiltinLock(1, "scrolling_text", EmptyDict)
    \/ StartBuiltinSet(1)
    \/ \E rp \in BootRenderParams : SetRenderParamsCall(1, rp)
    \/ SetRenderParamsLock(1)
    \/ SetRenderParamsMap(1)
    \/ Worker
    \/ WDrawError
    \/ WBuiltinError
    \/ SigClose
    \/ SigExit

\* the process from its start to its exit, for every configured device tag:
\* boot, one thread that starts assets and a pattern and updates parameters,
\* the worker with the failures of drawing and of pattern creation, and the
\* signal handler
SpecBoot == InitBoot /\ [][NextBoot]_vars

NextDevice ==
    \/ BootCreate
    \/ \E ok \in BOOLEAN : DevOpen(ok)
    \/ DevClose
    \/ \E f \in InputFrames : DevDraw(f)
    \/ \E pct \in InputBrightness : DevSetBrightness(pct)

\* one thread constructs the driver of the configured tag and calls its
\* methods one after the other, in any order
SpecDevice == InitBoot /\ [][NextDevice]_vars

\* the worker's steps while an asset stays requested
WorkerRetry ==
    \/ WTop \/ WReadPath
    \/ WTransform \/ WColor \/ WDrawReturn \/ WCommit
    \/ WAssetFrame \/ WAssetExhausted \/ WAssetError \/ WBackoff
    \/ WAssetCheck1 \/ WAssetCheck2

NextRetry ==
    \/ StartCheck(1, BadPath)
    \/ StartLock(1)
    \/ StartSet(1)
    \/ FsRepair
    \/ WorkerRetry

\* start of a file that does not decode, which may be repaired at any time;
\* the worker is a thread of its own that the scheduler keeps running, so a
\* step of it that stays possible is eventually taken
SpecRetry == Init /\ [][NextRetry]_vars /\ WF_vars(WorkerRetry)

NextDraw == DrawFrameTransform \/ DrawFrameColor \/ DrawFrameDevice

\* one frame goes through _draw_frame, for every raster, RenderConfig,
\* coordinate map and topology of the input sets
SpecDraw == InitDraw /\ [][NextDraw]_vars

\* map_for_ws2811 is applied once, for every raster and coordinate map of the
\* input sets
SpecSerialize == InitSerialize /\ [][Serialize]_vars

\* apply_gamma_rgb_balance is applied once to a gray pixel, for every channel
\* value and the gammas and balances of the input sets
SpecGamma == InitGamma /\ [][ColorCorrect]_vars

\* apply_transforms is applied four times in succession, for every raster and
\* topology of the input sets
SpecTransform == InitTransform /\ [][Transform]_vars

NextTorn ==
    \/ \E p \in {TornGif, BadPath, ImgPath} : StartCheck(1, p)
    \/ StartLock(1)
    \/ StartSet(1)
    \/ StopClear(1)
    \/ StopLock(1)
    \/ WorkerAsset

\* one thread starts and stops a still image, a file that does not decode
\* and the GIF with the damaged second frame, while the worker runs
SpecTorn == Init /\ [][NextTorn]_vars

NextLoad == LoadImageYield \/ LoadImageRaise \/ LoadImageEnd

\* the sequence load_image returns is consumed to its end, for every stored
\* image of the input set
SpecLoad == InitLoad /\ [][NextLoad]_vars

NextPacing == FrameDuration \/ FrameDurationRaise

\* _frame_duration_ms is applied once, for every frame duration and stored
\* frame-rate cap of the input sets
SpecPacing == InitPacing /\ [][NextPacing]_vars

NextPanel == Hub75Draw \/ Hub75DrawNoop

\* one draw_rgb_frame call for every panel size and frame of the input sets
SpecPanel == InitPanel /\ [][NextPanel]_vars

NextFaults ==
    \/ \E p \in BootPaths : StartCheck(1, p)
    \/ StartLock(1)
    \/ StartSet(1)
    \/ StartBuiltinLock(1, "color_cycle", EmptyDict)
    \/ StartBuiltinSet(1)
    \/ StopClear(1)
    \/ StopLock(1)
    \/ \E rp \in FaultRenderParams : SetRenderParamsCall(1, rp)
    \/ SetRenderParamsLock(1)
    \/ Worker
    \/ WDrawError

\* playback on an opened LED matrix with every failure of a frame: the loader,
\* the transform, the colour correction and Device.draw
SpecFaults == InitFaults /\ [][NextFaults]_vars

NextSizes == OpenBuiltin \/ DrawFrameTransform

\* a pattern frame is generated and transformed, for every configuration of
\* the two size sections
SpecSizes == InitSizes /\ [][NextSizes]_vars

NextPlaylist ==
    \/ PlaylistInit
    \/ \E items \in InputItemLists, loop, ok \in BOOLEAN : SetItems(items, loop, ok)
    \/ PlaylistCurrent
    \/ \E ok \in BOOLEAN : PlaylistNext(ok)

\* a PlaylistManager is constructed on every storage file of the input set
\* and then used
SpecPlaylist == InitPlaylist /\ [][NextPlaylist]_vars

---------------------------------------------------------------------------
(* Properties *)

\* the step of caller c that takes it from label a to label b
Step(c, a, b) == pc[c] = a /\ pc'[c] = b

\* C1: start(path) with a path that is no existing regular file raises
\* FileNotFoundError, and neither the check nor the raise changes the running
\* flag, the path, the pattern name and parameters, the statistics or the
\* cached image.
C1_StartInvalidFails ==
    [][\A c \in Callers :
         /\ (pc[c] = "idle" /\ pc'[c] \in {"start_lock", "start_raise"}
               /\ ~IsFile(Abspath(arg'[c].path)))
            => (pc'[c] = "start_raise" /\ UNCHANGED shared)
         /\ Step(c, "start_raise", "idle") => UNCHANGED shared]_vars

\* C1 witness: start on a directory has raised while an asset is playing and
\* frames have been drawn
C1_Witness ==
    \E c \in Callers :
        /\ pc[c] = "start_raise" /\ arg[c].path = DirPath
        /\ run_event /\ current_path = ImgPath /\ stats.frames > 0

\* C2: an asset path and a pattern name are never both set, and get_status
\* never reports both.
C2_ExactlyOneState ==
    /\ ~(current_path # NoPath /\ builtin_name # NoName)
    /\ ~(GetStatus.path # NoPath /\ GetStatus.builtin # NoName)

\* C3: once a start(p) and a stop() that overlap have both returned, the
\* state is that of one of the two sequential orders: running with the path p,
\* or not running with no path and no pattern; running with no path and no
\* pattern is never reached.
C3_StartStopLinearizable ==
    (\A c \in Callers : pc[c] = "idle")
        => /\ ~(run_event /\ current_path = NoPath /\ builtin_name = NoName)
           /\ (run_event /\ current_path # NoPath)
              \/ (~run_event /\ current_path = NoPath /\ builtin_name = NoName)

\* the worker's cancellation checks before and after the frame sleep
SafePoints == {"b_chk1", "b_chk2", "a_chk1", "a_chk2"}

\* C4: when the worker passes a cancellation check while the requested asset
\* or pattern is another one than the one it is playing, it leaves the
\* sequence it is playing and polls the state again.
C4_SwitchIsCancellationPoint ==
    [][(wpc \in SafePoints /\ wpc' # wpc /\ run_event
          /\ RendererState # NoArg /\ RendererState # wsrc)
       => wpc' = "top"]_vars

\* C5: when the sequence of the asset that is still the requested one ends
\* normally, the running flag becomes false and the path is cleared.
C5_ExhaustionGoesIdle ==
    [][(wpc = "a_next" /\ wpc' # wpc /\ widx >= FrameCount(wsrc.path)
          /\ ~DecodeFails(wsrc.path) /\ current_path = wsrc.path)
       => (~run_event' /\ current_path' = NoPath)]_vars

IdleState ==
    /\ ~run_event /\ current_path = NoPath /\ builtin_name = NoName
    /\ builtin_params = EmptyDict

\* C6: stop() first clears the running flag and nothing else, then clears the
\* path, the pattern name and the parameters and leaves the statistics, the
\* cached image, the mapper and the RenderConfig as they are; when it returns
\* the controller is Idle; on an Idle controller neither step changes anything.
C6_StopLeavesIdle ==
    [][\A c \in Callers :
         /\ Step(c, "idle", "stop_lock")
            => (~run_event' /\ UNCHANGED <<current_path, builtin_name,
                    builtin_params, stats, latest_image, render, mapper>>)
         /\ Step(c, "stop_lock", "idle")
            => (IdleState' /\ UNCHANGED <<stats, latest_image, render, mapper>>)
         /\ ((Step(c, "idle", "stop_lock") \/ Step(c, "stop_lock", "idle"))
               /\ IdleState)
            => UNCHANGED shared]_vars

\* C6 witness: stop has returned after an asset was played: Idle, with the
\* frames counted and the last image still cached
C6_Witness ==
    /\ \A c \in Callers : pc[c] = "idle"
    /\ IdleState /\ stats.frames = 2 /\ stats.started_at > 0
    /\ latest_image = AssetFrame(GifPath, 2)

C8_StartPatternPlays ==
    [][/\ \A c \in Callers :
            /\ Step(c, "idle", "sb_set")
               => /\ builtin_name' = arg'[c].name
                  /\ builtin_params' = arg'[c].params
                  /\ current_path' = NoPath
                  /\ stats'.frames = 0 /\ stats'.last_draw_ms = 0
                  /\ stats'.started_at > stats.started_at
            /\ Step(c, "sb_set", "idle") => run_event'
       /\ (wpc = "rd_name" /\ wpc' # wpc /\ builtin_name # NoName)
          => /\ wpc' = "b_chk1"
             /\ wsrc'.name = builtin_name
             /\ builtin_name \notin BuiltinNames
                => (wframe'.content = "black" /\ wframe'.dur = 100)]_vars

\* C9: a parameter update changes neither the running flag, the path, the
\* pattern name, the statistics nor the cached image; the frame counter only
\* goes down in the locked block of start or start_builtin, and every frame the
\* worker publishes raises it by exactly one.
C9_ParamsDontInterrupt ==
    [][/\ \A c \in Callers :
            (pc[c] \in {"srp_lock", "ws_update"} /\ pc'[c] # pc[c])
            => UNCHANGED <<run_event, current_path, builtin_name,
                           builtin_params, stats, latest_image>>
       /\ stats'.frames < stats.frames
          => \E c \in Callers :
                Step(c, "start_lock", "start_set") \/ Step(c, "idle", "sb_set")
       /\ (wpc = "commit" /\ wpc' # wpc) => stats'.frames = stats.frames + 1]_vars

\* C9 witness: parameters were updated while an asset is playing, and the
\* worker has published further frames
C9_Witness ==
    /\ render.gamma = 10 /\ run_event /\ current_path = GifPath
    /\ stats.frames = 2 /\ wpc = "a_chk1"
    /\ \A c \in Callers : pc[c] = "idle"

\* the valid ranges of the RenderConfig fields (gamma and balance times ten)
RenderInRange(r) ==
    /\ r.gamma >= 10 /\ r.gamma <= 30
    /\ \A i \in 1..3 : r.rgb_balance[i] >= 5 /\ r.rgb_balance[i] <= 15
    /\ r.rotate \in {0, 90, 180, 270}
    /\ r.fps_cap >= 1 /\ r.fps_cap <= 240

\* C10: after any sequence of parameter updates every field of the live
\* RenderConfig is inside its valid range.
C10_ConfigStaysInRange == RenderInRange(render)

\* C11: a parameter update leaves every RenderConfig field that the request
\* does not name at the value it had: neither the update of the live dict by
\* ws_set_params nor the one by Renderer.set_render_params changes a field
\* outside the payload the caller sent.
C11_UpdateIsMerge ==
    [][\A c \in Callers :
         (pc[c] \in {"ws_update", "srp_lock"} /\ pc'[c] # pc[c])
         => \A k \in DOMAIN render \ DOMAIN arg[c].payload :
                render'[k] = render[k]]_vars

\* the Device.draw calls in progress
DrawsInFlight == {x \in inflight : x.call = "draw"}

C13_NoIoUnderLock == lock # NoThread => \A x \in inflight : x.t # lock

\* C14: when the colour correction of a frame reads gamma and rgb_balance,
\* the RenderConfig either still has the rotate, mirror and scale values the
\* frame was transformed with, or still has the gamma and rgb_balance of the
\* RenderConfig the transform was read from: the values of the frame are
\* those of one of the two configs.
C14_OneConfigPerFrame ==
    [][(wpc = "color" /\ wpc' \in {"in_draw", "in_noop"})
       => (XformOf(render) = XformOf(wsnap)
             \/ ColorOf(render) = ColorOf(wsnap))]_vars

\* the worker thread exists and is inside the loop of _run
WorkerAlive == wpc \notin {"boot", "dead", "exited"}

\* C15: when the signal handler closes the device, no Device.draw is in
\* flight.
C15_CloseAfterWorker ==
    [][(bpc = "serving" /\ bpc' = "closed") => DrawsInFlight = {}]_vars

\* C16: from the start of the Renderer to the exit of the process the worker
\* thread is alive; a failure of the asset loader, of the pattern, of the
\* colour correction or of Device.draw takes the worker to the backoff sleep,
\* and from there it goes back to the top of its loop.
C16_WorkerSurvives ==
    /\ [](bpc \in {"serving", "closed"} => WorkerAlive)
    /\ [][bpc' # "exited"
           => /\ (wpc = "a_next" /\ wpc' # wpc /\ widx >= FrameCount(wsrc.path)
                    /\ DecodeFails(wsrc.path)) => wpc' = "backoff"
              /\ (wpc = "rd_name" /\ wpc' \notin {"rd_name", "top", "b_chk1"})
                    => wpc' = "backoff"
              /\ (wpc = "color" /\ wpc' # wpc /\ render.gamma = NonNumeric)
                    => wpc' = "backoff"
              /\ (wpc = "in_draw" /\ wpc' \notin {"in_draw", "commit"})
                    => wpc' = "backoff"
              /\ (wpc = "backoff" /\ wpc' # wpc) => wpc' = "top"]_vars

\* C16 witness: Device.draw of the opened LED matrix has failed for a frame
\* of a readable asset, after an earlier frame was published; the worker is
\* in its backoff sleep
C16_Witness ==
    /\ bpc = "serving" /\ wpc = "backoff"
    /\ device.kind = "HUB75" /\ device.matrix
    /\ current_path = ImgPath /\ builtin_name = NoName /\ stats.frames > 0
    /\ render.gamma # NonNumeric

\* C17: a failure of the asset loader leaves the running flag and the path as
\* they are, and whenever the requested asset is readable while the flag is
\* set, the worker eventually publishes a frame of it.
C17_RetryInPlace ==
    /\ [][(wpc = "a_next" /\ wpc' = "backoff")
           => UNCHANGED <<run_event, current_path, builtin_name>>]_vars
    /\ (run_event /\ current_path = BadPath /\ BadPath \in decodable)
          ~> (latest_image.path = BadPath)

\* C17 witness: the loader has failed and the worker is in its backoff sleep,
\* still asked to play the asset; the file has meanwhile become readable, no
\* frame of it was drawn yet and start was called only once
C17_Witness ==
    /\ wpc = "backoff" /\ run_event /\ current_path = BadPath
    /\ BadPath \in decodable /\ latest_image = NoFrame
    /\ now = 2 /\ pc[1] = "idle"

\* C18: when create_app has returned, the active device is the preview sink
\* or a device whose open() succeeded.
C18_OpenFailureFallsBack ==
    bpc = "serving" => (device.kind = "PREVIEW" \/ ~OpenCanFail(device)
                          \/ device.matrix)

\* two tags that differ only in the case of their letters
SameIgnoringCase(a, b) ==
    /\ Len(a) = Len(b)
    /\ \A i \in 1..Len(a) :
          \/ a[i] = b[i]
          \/ \E j \in DOMAIN LowerLetters :
                {a[i], b[i]} = {LowerLetters[j], UpperLetters[j]}

\* the driver class a tag selects
TagKind(tag) ==
    IF SameIgnoringCase(tag, TagHub75) THEN "HUB75"
    ELSE IF SameIgnoringCase(tag, TagWs2811) \/ SameIgnoringCase(tag, TagWs2811Pi)
         THEN "WS2811"
    ELSE IF SameIgnoringCase(tag, TagWled) THEN "WLED"
    ELSE "PREVIEW"

\* C19: for every tag the factory returns a driver: the one of the tag when
\* the tag is, in any case of its letters, HUB75, WS2811, WS2811_PI, WLED or
\* PREVIEW, and the preview sink for every other tag; create_app never has
\* to replace it by the fallback driver.
C19_FactoryTotal ==
    bpc # "create"
        => /\ device.kind = TagKind(cfg_device)
           /\ device.name # "PREVIEW_FALLBACK"
           /\ (device.kind = "PREVIEW" /\ ~SameIgnoringCase(cfg_device, TagPreview))
                 => device.name = "PREVIEW_UNKNOWN"

\* C19 witness: the tag "hub75" in small letters has selected the matrix
\* driver, which the initializer is about to open
C19_Witness ==
    /\ bpc = "open" /\ cfg_device = <<"h", "u", "b", "7", "5">>
    /\ device = Hub75Driver

\* C20: draw_rgb_frame on a driver that was constructed but not opened, or
\* that was closed, changes nothing in the driver (a step that keeps the
\* driver's stage and its brightness is a draw).
C20_DrawOnClosedIsNoop ==
    [][(bpc \in {"open", "dev_closed"} /\ bpc' = bpc
          /\ device'.brightness = device.brightness)
       => device' = device]_vars

\* C21: the pixel sequence the worker hands to Device.draw is the Pixel
\* Mapper's serialization of the transformed and colour-corrected frame: in
\* the order of the coordinate map when one is loaded, entries out of bounds
\* dropped.
C21_DeviceGetsMappedPixels ==
    pstage = "drawn" => pout = MapForWs2811(mapper.ws_map, pimg)

\* whether a map entry lies on the raster
InBounds(e, img) == 0 <= e.x /\ e.x < img.w /\ 0 <= e.y /\ e.y < img.h

\* the entries of a map that lie on the raster, in the order of the map
Kept(ws_map, img) == SelectSeq(ws_map, LAMBDA e : InBounds(e, img))

\* C22: map_for_ws2811 on a W x H raster returns, with a map loaded, the
\* pixels at the map's entries in map order, the entries outside the raster
\* left out (one entry outside: map length minus one), and without a map the
\* W*H pixels row by row.
C22_SerializeIsReference ==
    pstage = "mapped" =>
        IF mapper.ws_map # <<>>
        THEN LET kept == Kept(mapper.ws_map, pimg) IN
             /\ Len(pout) = Len(kept)
             /\ \A k \in 1 .. Len(kept) :
                    pout[k] = GetPixel(pimg, kept[k].x, kept[k].y)
             /\ Cardinality({i \in DOMAIN mapper.ws_map :
                                ~InBounds(mapper.ws_map[i], pimg)}) = 1
                    => Len(pout) = Len(mapper.ws_map) - 1
        ELSE /\ Len(pout) = pimg.w * pimg.h
             /\ \A c \in Coords(pimg.w, pimg.h) :
                    pout[c[2] * pimg.w + c[1] + 1] = GetPixel(pimg, c[1], c[2])

\* C22 witness: a map of three entries, the second outside the raster, was
\* applied to the 2 x 2 ramp and gave the two pixels of the other entries
C22_Witness ==
    /\ pstage = "mapped"
    /\ mapper.ws_map = <<[x |-> 0, y |-> 1], [x |-> 5, y |-> 0], [x |-> 0, y |-> 0]>>
    /\ pimg = Ramp(2, 2)
    /\ pout = <<<<30, 20, 30>>, <<10, 20, 30>>>>

\* the integers nearest to 255 * (v/255)^(1/g) * m for a gamma g of 1, 2 or 3
\* and a multiplier m of k halves: the r with
\* (2r-1)^g <= 255^(g-1) * v * k^g <= (2r+1)^g; two of them when the value
\* lies halfway
Nearest(v, g, k) ==
    LET y == Pow(255, g - 1) * v * Pow(k, g)
    IN {r \in 0 .. 400 : /\ y <= Pow(2 * r + 1, g)
                         /\ r = 0 \/ Pow(2 * r - 1, g) <= y}

\* round() of that value, halves rounded up or halves rounded to even
Rounded(v, g, k) ==
    LET n == Nearest(v, g, k)
    IN {CHOOSE r \in n : \A q \in n : q <= r}
           \cup {r \in n : Cardinality(n) = 1 \/ r % 2 = 0}

\* C23: for gamma g in [1,3], balance m in [0.5,1.5] and a gray pixel v, every
\* channel apply_gamma_rgb_balance returns is
\* clamp(round(255 * (v/255)^(1/g) * m), 0, 255).
C23_GammaIsReference ==
    pstage = "corrected" =>
        \A ch \in 1 .. 3 :
            /\ GetPixel(pimg, 0, 0)[ch] \in 0 .. 255
            /\ GetPixel(pimg, 0, 0)[ch] \in
                   {Min(255, r) : r \in Rounded(pcfg, render.gamma \div 10,
                                                render.rgb_balance[ch] \div 5)}

\* whether a raster has the size the Transform stage scales to; without a
\* target size every raster has
AtTargetSize(img, topo) ==
    (TargetW(topo) # 0 /\ TargetH(topo) # 0)
        => (img.w = TargetW(topo) /\ img.h = TargetH(topo))

\* C24: with rotate 0, no mirror and a frame at the target size the Transform
\* stage returns the frame unchanged; the rotation by 90 degrees applied four
\* times in succession to any frame returns the frame, with its width and
\* height and with the same pixel at every position.
C24_RotationAlgebra ==
    /\ (pstage = "transformed" /\ render.rotate = 0
          /\ AtTargetSize(pcfg.orig, pcfg.topo))
       => pimg = pcfg.orig
    /\ (pstage = "transformed" /\ render.rotate = 90 /\ pcfg.times = 4)
       => (pimg.w = pcfg.orig.w /\ pimg.h = pcfg.orig.h /\ pimg = pcfg.orig)

\* C25: get_latest_image returns None until the worker has published its
\* first frame; the cached image only changes when the worker publishes the
\* frame it has drawn, and once there is one it is never None again: stop,
\* start, start_builtin and the parameter updates leave it as it is.
C25_LatestImageKept ==
    /\ GetLatestImage = NoFrame
    /\ [][/\ GetLatestImage' # GetLatestImage
             => (wpc = "commit" /\ wpc' # wpc /\ wframe # NoFrame
                   /\ GetLatestImage' = wframe)
          /\ GetLatestImage # NoFrame => GetLatestImage' # NoFrame
          /\ (\E c \in Callers : pc'[c] # pc[c])
             => GetLatestImage' = GetLatestImage]_vars

\* C25 witness: an asset was played and stopped, the parameters were updated
\* and a pattern was started; no frame of the pattern is published yet and
\* the cached image is still the asset's last frame
C25_Witness ==
    /\ \A c \in Callers : pc[c] = "idle"
    /\ run_event /\ builtin_name = "color_cycle" /\ stats.frames = 0
    /\ render.gamma = 10
    /\ GetLatestImage = AssetFrame(GifPath, 2)

\* C26: an open that fails yields no frame before it fails: the worker hands
\* no frame of an asset to the device whose loader raises.
C26_NoFrameOfFailingOpen ==
    (wpc \in {"draw", "color", "in_draw", "in_noop", "commit"}
         /\ wframe.kind = "asset")
        => ~DecodeFails(wframe.path)

\* C27: load_image of a still image yields exactly one Frame, whose duration
\* is None and whose pixels are the stored ones (for a gray image the gray
\* value in every channel, for an image with alpha the three colours), and
\* then the sequence ends.
C27_StillImageIsOneFrame ==
    /\ pstage = "opened" => pout = <<>>
    /\ pstage \in {"yielded", "ended"} =>
           /\ Len(pout) = 1
           /\ pout[1].duration_ms = NoDur
           /\ pout[1].image.w = pcfg.w /\ pout[1].image.h = pcfg.h
           /\ \A c \in Coords(pcfg.w, pcfg.h) :
                  \A ch \in 1 .. 3 :
                      GetPixel(pout[1].image, c[1], c[2])[ch]
                          = IF pcfg.mode = "L" THEN pcfg.px[c][1]
                                               ELSE pcfg.px[c][ch]

\* C27 witness: the 3 x 3 image of (10, 20, 30) was read to the end of its
\* sequence: one frame, pixel (0, 0) is (10, 20, 30)
C27_Witness ==
    /\ pstage = "ended"
    /\ pcfg = StoredAs(Solid(3, 3), "RGB", 255)
    /\ Len(pout) = 1
    /\ GetPixel(pout[1].image, 0, 0) = <<10, 20, 30>>

\* C28: once stop() has returned and while no further start, start_builtin or
\* stop is called, at most one call of Device.draw returns; and no step of a
\* caller moves the worker or touches the frame it is drawing.
C28_StopWithinOneFrame ==
    /\ [](drawn <= 1)
    /\ [][(\E c \in Callers : pc'[c] # pc[c]) => UNCHANGED wvars]_vars

\* C28 witness: the frame that was in the worker's hands when stop() returned
\* has been drawn and published, and the worker is polling again
C28_Witness ==
    /\ drawn = 1 /\ ~run_event /\ wpc = "top"
    /\ \A c \in Callers : pc[c] = "idle"
    /\ latest_image = AssetFrame(GifPath, 1)

\* C29: the interval _frame_duration_ms returns is the frame's duration when
\* the frame has one, else 1000 / fps_cap with the cap clamped to 1..240; it
\* is greater than 0 for every frame and stored cap, and between 1000/240 and
\* 1000 ms for a frame without duration.
C29_PacingInterval ==
    pstage = "paced" =>
        /\ pout.den > 0 /\ pout.num > 0
        /\ pcfg > 0 => pout.num = pcfg * pout.den
        /\ (pcfg = NoDur \/ pcfg = 0) =>
               /\ \E cap \in 1 .. 240 :
                      /\ pout.num * cap = 1000 * pout.den
                      /\ (render.fps_cap \in 1 .. 240 => cap = render.fps_cap)
               /\ 1000 * pout.den <= 240 * pout.num
               /\ pout.num <= 1000 * pout.den

\* C29 witness: a frame without duration was paced with a stored cap of 1000:
\* the interval is 1000/240 ms
C29_Witness ==
    /\ pstage = "paced" /\ pcfg = NoDur /\ render.fps_cap = 1000
    /\ pout = [num |-> 1000, den |-> 240]

\* C30: after draw_rgb_frame on an opened panel of PW x PH every canvas
\* position (x, y) with x < min(width, PW) and y < min(height, PH) holds the
\* frame's pixel (x, y), also when the frame is wider than the panel, and the
\* buffer was swapped exactly once.
C30_PanelCrop ==
    pstage = "swapped" =>
        /\ \A c \in Coords(Min(pimg.w, pcfg.width), Min(pimg.h, pcfg.height)) :
               pout.canvas[c] = GetPixel(pimg, c[1], c[2])
        /\ pout.swaps = 1

\* whether frame f comes from the asset or pattern the state src names
FrameOfSource(f, src) ==
    CASE src.op = "asset" -> f.kind = "asset" /\ f.path = src.path
      [] src.op = "builtin" -> f.kind = "builtin" /\ f.name = src.name
      [] OTHER -> FALSE

\* C31: while an asset or a pattern is requested, every step that counts a
\* frame or stores the latest image counts and stores a frame of that asset
\* or pattern: a frame of the source played before the last start or
\* start_builtin is neither counted in the new session nor stored.
C31_StatsOfCurrentSession ==
    [][((stats'.frames = stats.frames + 1 \/ latest_image' # latest_image)
          /\ RendererState # NoArg)
       => FrameOfSource(latest_image', RendererState)]_vars

\* C32: a frame whose transform, colour correction or Device.draw raises
\* leaves the frame counter, last_draw_ms and the cached image unchanged; the
\* counter changes only by the reset to 0 in start or start_builtin and by
\* exactly 1 in the commit that follows a Device.draw that returned normally,
\* and that commit is the only step the worker takes after such a return.
C32_CountsSuccessfulDraws ==
    [][/\ (wpc \in {"draw", "color", "in_draw"} /\ wpc' = "backoff")
          => UNCHANGED <<stats, latest_image>>
       /\ stats'.frames # stats.frames
          => \/ /\ stats'.frames = 0
                /\ \E c \in Callers :
                      \/ Step(c, "start_lock", "start_set")
                      \/ Step(c, "idle", "sb_set")
             \/ /\ stats'.frames = stats.frames + 1
                /\ wpc = "commit" /\ wpc' # wpc
                /\ latest_image' = wframe
       /\ (stats'.last_draw_ms # stats.last_draw_ms \/ latest_image' # latest_image)
          => stats'.frames # stats.frames \/ stats'.started_at # stats.started_at
       /\ (wpc' = "commit" /\ wpc # "commit")
          => (wpc \in {"in_draw", "in_noop"} /\ UNCHANGED <<stats, latest_image>>)
       /\ (wpc = "commit" /\ wpc' # wpc) => stats'.frames = stats.frames + 1]_vars

\* C32 witness: after one frame of the image was published, the transform of
\* the next frame has raised on a rotate that is no number; the worker is in
\* its backoff sleep and the counter is still 1
C32_Witness ==
    /\ wpc = "backoff" /\ render.rotate = NonNumeric /\ render.gamma # NonNumeric
    /\ current_path = ImgPath /\ run_event
    /\ stats.frames = 1 /\ latest_image = AssetFrame(ImgPath, 1)

\* C33: for every configuration the size of the pattern canvas, the resample
\* target of the transform and the panel size of the LED matrix driver are
\* the same, and the transformed frame that goes to Device.draw has it.
C33_TargetSizeAgreement ==
    pstage = "transformed" =>
        /\ pout.canvas = pout.panel
        /\ TargetW(pcfg) = pout.panel.w /\ TargetH(pcfg) = pout.panel.h
        /\ pimg.w = pout.panel.w /\ pimg.h = pout.panel.h

\* the positions of the worker in which it sleeps or reads the requested
\* path and pattern, lines 104-122
PollPoints == {"top", "rd_path", "rd_name"}

\* the controller is Idle and the worker has left the frame loops
Quiescent == IdleState /\ wpc \in PollPoints

\* C34: the initial state is Idle with frame counter 0 and no cached image,
\* and the worker is polling; from there and from every Idle state in which
\* the worker has left its frame loop after a stop, the worker only sleeps
\* and polls, no Device.draw is in progress, and the frame counter and the
\* cached image change only by the reset of a start or start_builtin.
C34_IdleIsQuiescent ==
    /\ Quiescent /\ stats.frames = 0 /\ latest_image = NoFrame
    /\ [](Quiescent => DrawsInFlight = {})
    /\ [][Quiescent
          => /\ wpc' \in PollPoints
             /\ DrawsInFlight' = {}
             /\ latest_image' = latest_image
             /\ stats' # stats
                => \E c \in Callers :
                      \/ Step(c, "start_lock", "start_set")
                      \/ Step(c, "idle", "sb_set")]_vars

\* C34 witness: stop() has returned after the image was played once, while
\* the worker was about to read the path again: Idle, frame counter 1
C34_Witness ==
    /\ IdleState /\ wpc = "rd_path"
    /\ \A c \in Callers : pc[c] = "idle"
    /\ stats.frames = 1 /\ latest_image = AssetFrame(ImgPath, 1)

\* C35: in every state of a constructed PlaylistManager, also one loaded
\* from the storage file, a non-empty item list has 0 <= index < len(items)
\* and current() returns an item; set_items sets the index to 0; next() on
\* the last item goes to the first with loop and stays without loop.
C35_PlaylistCursor ==
    /\ []((pstage = "ready" /\ pimg.items # <<>>)
            => /\ 0 <= pimg.index /\ pimg.index < Len(pimg.items)
               /\ Current(pimg) = pimg.items[pimg.index + 1])
    /\ [][/\ pout'.op = "set_items" => pimg'.index = 0
          /\ (pout'.op = "next" /\ pimg.items # <<>>
                /\ pimg.index = Len(pimg.items) - 1)
             => pimg'.index = IF pimg.loop THEN 0 ELSE pimg.index]_vars

===========================================================================
